---------------------------- MODULE Spec2Model ----------------------------
(* A model of the R2 file manager: the object-store service                *)
(* (src/src/services/cloudflare-r2.ts) and the page controller             *)
(* (src/src/app/page.tsx).  JavaScript strings are sequences of            *)
(* one-character strings, so that split, join, slice and prefix tests      *)
(* are computed as the code computes them.                                 *)
EXTENDS Naturals, Integers, Sequences, FiniteSets, TLC

(***************************************************************************)
(* Bounds of the model.                                                    *)
(***************************************************************************)
\* Number of entries one ListObjectsV2 response holds (1000 in the store).
MaxKeys == 4

(***************************************************************************)
(* Strings.                                                                *)
(***************************************************************************)
EmptyStr == <<>>
SlashStr == <<"/">>
KEEP == <<".", "k", "e", "e", "p">>

\* s.includes('/')
IncludesSlash(s) == \E i \in 1..Len(s) : s[i] = "/"

\* s.startsWith(p)
StartsWith(s, p) == Len(p) <= Len(s) /\ SubSeq(s, 1, Len(p)) = p

\* s.endsWith(p)
EndsWith(s, p) == Len(p) <= Len(s) /\ SubSeq(s, Len(s) - Len(p) + 1, Len(s)) = p

\* s.slice(1)
Slice1(s) == SubSeq(s, 2, Len(s))

\* s.slice(0, -1)
SliceDropLast(s) == SubSeq(s, 1, Len(s) - 1)

\* s.indexOf('/') as a 1-based position, 0 when absent
IndexOfSlash(s) ==
    IF IncludesSlash(s)
    THEN CHOOSE i \in 1..Len(s) : s[i] = "/" /\ \A j \in 1..(i - 1) : s[j] # "/"
    ELSE 0

\* s.lastIndexOf('/') as a 1-based position, 0 when absent
LastIndexOfSlash(s) ==
    IF IncludesSlash(s)
    THEN CHOOSE i \in 1..Len(s) : s[i] = "/" /\ \A j \in (i + 1)..Len(s) : s[j] # "/"
    ELSE 0

\* s.split('/')
RECURSIVE Split(_)
Split(s) ==
    IF IncludesSlash(s)
    THEN LET i == IndexOfSlash(s)
         IN  <<SubSeq(s, 1, i - 1)>> \o Split(SubSeq(s, i + 1, Len(s)))
    ELSE <<s>>

\* parts.join('/')
RECURSIVE Join(_)
Join(parts) ==
    IF Len(parts) = 0 THEN EmptyStr
    ELSE IF Len(parts) = 1 THEN parts[1]
    ELSE parts[1] \o SlashStr \o Join(Tail(parts))

\* parts.filter(Boolean)
FilterBoolean(parts) == SelectSeq(parts, LAMBDA p : p # EmptyStr)

\* parts.pop(), undefined (modelled as the empty string, both falsy) when empty
Pop(parts) == IF Len(parts) = 0 THEN EmptyStr ELSE parts[Len(parts)]

\* UTF-8 code unit of the characters the model uses
CharCode(c) ==
    CASE c = "." -> 46
      [] c = "/" -> 47
      [] c = "_" -> 95
      [] c = "a" -> 97
      [] c = "b" -> 98
      [] c = "e" -> 101
      [] c = "k" -> 107
      [] c = "p" -> 112
      [] c = "x" -> 120
      [] c = "y" -> 121
      [] OTHER   -> 122

\* Binary (UTF-8) order of two keys, the order in which the store lists them
RECURSIVE KeyLess(_, _)
KeyLess(a, b) ==
    IF Len(b) = 0 THEN FALSE
    ELSE IF Len(a) = 0 THEN TRUE
    ELSE IF a[1] = b[1] THEN KeyLess(Tail(a), Tail(b))
    ELSE CharCode(a[1]) < CharCode(b[1])

RECURSIVE SortKeys(_)
SortKeys(S) ==
    IF S = {} THEN <<>>
    ELSE LET m == CHOOSE k \in S : \A o \in S \ {k} : KeyLess(k, o)
         IN  <<m>> \o SortKeys(S \ {m})

SeqToSet(s) == {s[i] : i \in 1..Len(s)}

\* The first n elements of a sequence
Take(s, n) == SubSeq(s, 1, IF Len(s) < n THEN Len(s) ELSE n)

\* A sequence without its repeated elements, first occurrences kept
\* (the insertion order of a JavaScript Set)
RECURSIVE Dedup(_)
Dedup(s) ==
    IF Len(s) = 0 THEN <<>>
    ELSE LET r == Dedup(SliceDropLast(s))
             last == s[Len(s)]
         IN  IF last \in SeqToSet(r) THEN r ELSE Append(r, last)

\* Concatenation of a sequence of sequences
RECURSIVE Flatten(_)
Flatten(ss) == IF Len(ss) = 0 THEN <<>> ELSE ss[1] \o Flatten(Tail(ss))

(***************************************************************************)
(* Names, keys and paths the model draws its inputs from.                  *)
(***************************************************************************)
NameA == <<"a">>
NameB == <<"b">>
NameAB == <<"a", "b">>
NameX == <<"x">>
NameY == <<"y">>
NameADotX == <<"a", ".", "x">>

PathRoot == SlashStr
PathA == <<"/", "a">>
PathAB == <<"/", "a", "/", "b">>
PathAb == <<"/", "a", "b">>

\* Keys of the bucket the deletion runs start from: a folder a with a
\* subfolder b, markers at both levels, one key more under a/ than a
\* listing response holds, a sibling folder ab, a sibling file a.x and a
\* root file x.
DeleteUniverse ==
    { Join(<<NameA, NameX>>), Join(<<NameA, KEEP>>),
      Join(<<NameA, NameB, NameX>>), Join(<<NameA, NameB, NameY>>),
      Join(<<NameA, NameB, KEEP>>),
      Join(<<NameAB, NameX>>), NameADotX, NameX }

DeleteFolderPaths == {PathRoot, PathA, PathAB, PathAb}

(***************************************************************************)
(* State.                                                                  *)
(***************************************************************************)
VARIABLES
    store,          \* the bucket: the set of object keys it holds
    dfPc,           \* deleteFolder run -> "idle" | "deleting" | "returned" | "threw"
    dfFolderPath,   \* deleteFolder run -> its folderPath argument
    dfContents,     \* deleteFolder run -> Contents of its listing response
    dfIdx,          \* deleteFolder run -> position of the for loop in Contents
    dfCalls,        \* deleteFolder run -> the delete calls it issued, in order
    dfListed,       \* deleteFolder run -> the bucket at the time of its listing
    upLast,         \* the last direct uploadFile call: its arguments, outcome and store calls
    ufPc,           \* uploadFolder: "idle" | "running" | "returned"
    ufEntry,        \* uploadFolder: the dropped directory entry
    ufBase,         \* uploadFolder: baseFolderPath
    ufPlan,         \* uploadFolder: the uploadFile calls its walk of the entry makes
    ufIdx,          \* uploadFolder: how many uploadFile calls it has awaited
    ufInflight,     \* uploadFolder: whether the put of call ufIdx + 1 is in flight
    ufLog,          \* uploadFolder: the puts that have completed, in order
    ufResults,      \* uploadFolder: results, the metadata pushed so far
    files,          \* page state: files
    folders,        \* page state: folders, the list holding the root Folder
    selectedFolder, \* page state: selectedFolder
    loading,        \* page state: loading
    fetches,        \* fetchFiles passes in flight: the bucket each one listed
    batch,          \* the multi-file upload of onDrop under way
    batchReport,    \* what the last multi-file upload told the user
    effectPending,  \* refreshTrigger was changed and the effect has not run yet
    relistOwed,     \* a handler changed the bucket and no listing was started since
    opsLeft,        \* handler invocations the run may still make
    lfLast,         \* the last direct listFiles call and what it returned
    cfLast,        \* the last handleCreateFolder call and its store calls
    toast,          \* the toast of the last handleDeleteFile, handleDeleteFolder or handleCreateFolder call
    rel             \* the run of onDrop on a file list with relative paths: its uploadFile calls

storeVars == <<store>>
deleteVars == <<dfPc, dfFolderPath, dfContents, dfIdx, dfCalls, dfListed>>
uploadVars == <<upLast, ufPc, ufEntry, ufBase, ufPlan, ufIdx, ufInflight, ufLog, ufResults>>
pageVars == <<files, folders, selectedFolder, loading, fetches, batch, batchReport,
              effectPending, relistOwed, opsLeft, cfLast, toast, rel>>
listVars == <<lfLast>>
vars == <<storeVars, deleteVars, uploadVars, pageVars, listVars>>

RunIds == {1, 2}

\* No uploadFile call made yet
NoUpload == [called |-> FALSE]

\* FileSystemFileEntry and FileSystemDirectoryEntry
FileEntry(name, size) == [name |-> name, isFile |-> TRUE, size |-> size, entries |-> <<>>]
DirEntry(name, entries) == [name |-> name, isFile |-> FALSE, size |-> 0, entries |-> entries]

\* No directory dropped yet
NoEntry == DirEntry(EmptyStr, <<>>)

\* No deleteFolder run is under way
DeleteIdle ==
    /\ dfPc = [r \in RunIds |-> "idle"]
    /\ dfFolderPath = [r \in RunIds |-> PathRoot]
    /\ dfContents = [r \in RunIds |-> <<>>]
    /\ dfIdx = [r \in RunIds |-> 1]
    /\ dfCalls = [r \in RunIds |-> <<>>]
    /\ dfListed = [r \in RunIds |-> {}]

\* No upload is under way
UploadIdle ==
    /\ upLast = NoUpload
    /\ ufPc = "idle"
    /\ ufEntry = NoEntry
    /\ ufBase = PathRoot
    /\ ufPlan = <<>>
    /\ ufIdx = 0
    /\ ufInflight = FALSE
    /\ ufLog = <<>>
    /\ ufResults = <<>>

\* listFiles has not been called directly
NoList == [called |-> FALSE, folderPath |-> <<>>, result |-> <<>>]
ListIdle == lfLast = NoList

\* handleCreateFolder has not been called
NoCreate == [called |-> FALSE, newFolderName |-> <<>>, parent |-> <<>>,
             file |-> [name |-> <<>>, size |-> 0], calls |-> <<>>]

\* None of handleDeleteFile, handleDeleteFolder, handleCreateFolder has raised
\* a toast
NoToast == [op |-> "none", kind |-> "none"]

\* onDrop has not been called with a file list that has relative paths
NoRelative == [phase |-> "idle", folder |-> <<>>, groups |-> <<>>, cur |-> 0, chains |-> <<>>,
               issued |-> <<>>, hasUploadedItems |-> FALSE, report |-> <<>>]

\* No multi-file upload is under way; none has reported yet
NoBatch == [active |-> FALSE, kind |-> "none", folder |-> <<>>, validFiles |-> <<>>,
            status |-> <<>>, settled |-> TRUE]
NoReport == [outcome |-> "none", succeeded |-> {}, failed |-> {}]

\* The page is not rendered
PageUnmounted ==
    /\ files = <<>>
    /\ folders = <<>>
    /\ selectedFolder = SlashStr
    /\ loading = FALSE
    /\ fetches = <<>>
    /\ batch = NoBatch
    /\ batchReport = NoReport
    /\ effectPending = FALSE
    /\ relistOwed = FALSE
    /\ cfLast = NoCreate
    /\ toast = NoToast
    /\ rel = NoRelative
    /\ opsLeft = 0

(***************************************************************************)
(* The object store.                                                       *)
(***************************************************************************)
\* One entry of a listing: the key itself, or with a delimiter the common
\* prefix up to and including the first delimiter after the prefix.
ListEntry(key, prefix, delimiter) ==
    LET rest == SubSeq(key, Len(prefix) + 1, Len(key))
    IN  IF delimiter /\ IncludesSlash(rest)
        THEN [kind |-> "prefix", key |-> prefix \o SubSeq(rest, 1, IndexOfSlash(rest))]
        ELSE [kind |-> "key", key |-> key]

\* ListObjectsV2Command: the keys under Prefix in binary order, rolled up
\* by Delimiter, cut to one page of MaxKeys entries; no continuation token
\* is ever sent, so only the first page is seen.
ListObjectsV2(st, prefix, delimiter) ==
    LET matching == SortKeys({k \in st : StartsWith(k, prefix)})
        entries == Dedup([i \in 1..Len(matching) |-> ListEntry(matching[i], prefix, delimiter)])
        page == Take(entries, MaxKeys)
        keysOf(kind) == LET sel == SelectSeq(page, LAMBDA e : e.kind = kind)
                        IN  [i \in 1..Len(sel) |-> sel[i].key]
    IN  [Contents |-> keysOf("key"), CommonPrefixes |-> keysOf("prefix")]

\* DeleteObjectCommand: removing an absent key succeeds as well
DeleteObject(st, key) == st \ {key}

\* A store that answers the delete of an absent key with an error
DeleteObjectAnswerNoSuchKey(st, key, ok) == ok /\ key \in st

\* Whether the store accepts a DeleteObjectCommand it is willing to serve
\* (ok): it does, whether the key is in the bucket or not
DeleteObjectAnswer(st, key, ok) == ok

\* PutObjectCommand
PutObject(st, key) == st \cup {key}

(***************************************************************************)
(* listFiles (cloudflare-r2.ts).                                           *)
(***************************************************************************)
\* The values path takes in the loop over parts[0 .. parts.length - 2],
\* one per non-empty part, starting from path
RECURSIVE ParentPaths(_, _, _)
ParentPaths(parts, i, path) ==
    IF i > Len(parts) - 1 THEN <<>>
    ELSE IF parts[i] = EmptyStr THEN ParentPaths(parts, i + 1, path)
    ELSE LET next == IF path # EmptyStr THEN path \o SlashStr \o parts[i] ELSE parts[i]
         IN  <<next>> \o ParentPaths(parts, i + 1, next)

\* folderPaths taken from the keys that are no markers only
ListedFolderPathsOfFiles(Contents) ==
    Dedup(Flatten([i \in 1..Len(Contents) |->
        LET paths == IF Pop(Split(Contents[i])) = KEEP THEN <<>>
                     ELSE ParentPaths(Split(Contents[i]), 1, EmptyStr)
        IN  [j \in 1..Len(paths) |-> SlashStr \o paths[j] \o SlashStr]]))

\* folderPaths: "/<path>/" for every parent folder of every listed key, in
\* the insertion order of the Set
ListedFolderPaths(Contents) ==
    Dedup(Flatten([i \in 1..Len(Contents) |->
        LET paths == ParentPaths(Split(Contents[i]), 1, EmptyStr)
        IN  [j \in 1..Len(paths) |-> SlashStr \o paths[j] \o SlashStr]]))

\* The folder object listFiles makes of one detected folder path
FolderObject(folderPath) ==
    LET pathParts == FilterBoolean(Split(folderPath))
    IN  [name |-> Pop(pathParts),
         folderPath |-> SlashStr \o Join(SliceDropLast(pathParts)),
         fileKey |-> folderPath,
         isFolder |-> TRUE]

\* name of a listed key: fileKey.split('/').pop() || fileKey
KeyName(fileKey) ==
    IF Pop(Split(fileKey)) # EmptyStr THEN Pop(Split(fileKey)) ELSE fileKey

\* The file object listFiles makes of one listed key
FileObject(fileKey) ==
    [name |-> KeyName(fileKey),
     folderPath |-> SlashStr \o (IF IncludesSlash(fileKey)
                                 THEN SubSeq(fileKey, 1, LastIndexOfSlash(fileKey) - 1)
                                 ELSE EmptyStr),
     fileKey |-> fileKey,
     isFolder |-> FALSE]

\* The folder placeholder listFiles('/') makes of one common prefix
RootPlaceholder(folderKey) ==
    [name |-> Pop(FilterBoolean(Split(folderKey))),
     folderPath |-> SlashStr,
     fileKey |-> folderKey,
     isFolder |-> TRUE]

\* processedFiles.filter(Boolean): the file objects of the listed keys, the
\* .keep markers skipped
ListedFiles(Contents) ==
    LET kept == SelectSeq(Contents, LAMBDA k : KeyName(k) # KEEP)
    IN  [i \in 1..Len(kept) |-> FileObject(kept[i])]

\* listFiles('/'): the placeholders of the top-level common prefixes, the
\* folder objects of every detected folder path and the file objects, from
\* one delimiter listing and one recursive listing of the bucket
ListFilesRoot(st) ==
    LET folderResponse == ListObjectsV2(st, EmptyStr, TRUE)
        recursiveResponse == ListObjectsV2(st, EmptyStr, FALSE)
        folderPaths == ListedFolderPaths(recursiveResponse.Contents)
        folderObjects == [i \in 1..Len(folderPaths) |-> FolderObject(folderPaths[i])]
        allObjects == IF Len(recursiveResponse.Contents) > 0
                      THEN folderObjects \o ListedFiles(recursiveResponse.Contents)
                      ELSE <<>>
        prefixes == SelectSeq(folderResponse.CommonPrefixes, LAMBDA k : EndsWith(k, SlashStr))
        folderPlaceholders == [i \in 1..Len(prefixes) |-> RootPlaceholder(prefixes[i])]
    IN  folderPlaceholders \o allObjects

\* The folder placeholder listFiles(folderPath) makes of one common prefix
\* of a folder listing
FolderPlaceholder(folderKey) ==
    LET folderPathClean == IF EndsWith(folderKey, SlashStr)
                           THEN SubSeq(folderKey, 1, Len(folderKey) - 1) ELSE folderKey
        folderKeyWithSlash == IF EndsWith(folderKey, SlashStr) THEN folderKey
                              ELSE folderKey \o SlashStr
        pathParts == FilterBoolean(Split(folderPathClean))
        parentPathParts == SliceDropLast(pathParts)
    IN  [name |-> Pop(pathParts),
         folderPath |-> SlashStr \o (IF Len(parentPathParts) > 0 THEN Join(parentPathParts)
                                     ELSE EmptyStr),
         fileKey |-> folderKeyWithSlash,
         isFolder |-> TRUE]

\* prefix of listFiles: the folder path without its leading slash, empty
\* for the root
ListFilesPrefix(folderPath) ==
    IF folderPath = SlashStr THEN EmptyStr
    ELSE IF StartsWith(folderPath, SlashStr) THEN Slice1(folderPath)
    ELSE folderPath

\* listFiles(folderPath) for a folder other than the root: one delimiter
\* listing under the prefix; a placeholder per common prefix, then the file
\* objects of the listed keys, the .keep markers skipped
ListFilesFolder(st, folderPath) ==
    LET folderResponse == ListObjectsV2(st, ListFilesPrefix(folderPath), TRUE)
        folderPlaceholders == [i \in 1..Len(folderResponse.CommonPrefixes) |->
                                  FolderPlaceholder(folderResponse.CommonPrefixes[i])]
    IN  folderPlaceholders \o ListedFiles(folderResponse.Contents)

\* listFiles(folderPath)
ListFiles(st, folderPath) ==
    IF folderPath = SlashStr THEN ListFilesRoot(st) ELSE ListFilesFolder(st, folderPath)

\* listFiles(folderPath) is called directly and returns.
ListFilesCall(folderPath) ==
    /\ lfLast' = [called |-> TRUE, folderPath |-> folderPath,
                  result |-> ListFiles(store, folderPath)]
    /\ UNCHANGED <<storeVars, deleteVars, uploadVars, pageVars>>

(***************************************************************************)
(* buildFolderStructure, getSubFolders and filteredFiles (page.tsx).       *)
(***************************************************************************)
RootName == <<"R", "o", "o", "t">>

\* initialFolders
initialFolders == <<[name |-> RootName, path |-> SlashStr, children |-> <<>>]>>

\* allPaths with the top-level folder of every fileKey only
AllPathsTopLevel(fileList) ==
    Dedup(<<SlashStr>> \o Flatten([i \in 1..Len(fileList) |->
        LET paths == ParentPaths(Split(fileList[i].fileKey), 1, EmptyStr)
        IN  [j \in 1..(IF Len(paths) > 0 THEN 1 ELSE 0) |-> SlashStr \o paths[j]]]))

\* allPaths: "/" and "/<currentPath>" for every parent folder of every
\* fileKey, in the insertion order of the Set
AllPaths(fileList) ==
    Dedup(<<SlashStr>> \o Flatten([i \in 1..Len(fileList) |->
        LET paths == ParentPaths(Split(fileList[i].fileKey), 1, EmptyStr)
        IN  [j \in 1..Len(paths) |-> SlashStr \o paths[j]]]))

\* path.split('/').length, the sort key
SplitLength(path) == Len(Split(path))

MaxSplitLength(paths) ==
    IF Len(paths) = 0 THEN 0
    ELSE CHOOSE n \in {SplitLength(paths[i]) : i \in 1..Len(paths)} :
             \A i \in 1..Len(paths) : SplitLength(paths[i]) <= n

\* The paths sorted with the deepest first
SortedPathsDeepestFirst(paths) ==
    Flatten([d \in 1..MaxSplitLength(paths) |->
                SelectSeq(paths, LAMBDA q : SplitLength(q) = MaxSplitLength(paths) + 1 - d)])

\* sortedPaths: the stable sort of the paths by ascending split length
SortedPaths(paths) ==
    Flatten([d \in 1..MaxSplitLength(paths) |->
                SelectSeq(paths, LAMBDA q : SplitLength(q) = d)])

\* The parent path taken as the path without its last segment, the leading
\* slash not restored for a top-level folder
ParentPathOfJoined(path) == Join(SliceDropLast(Split(path)))

\* parentPath of a folder path in the second pass
ParentPathOf(path) ==
    LET parentPathParts == SliceDropLast(FilterBoolean(Split(path)))
    IN  IF Len(parentPathParts) = 0 THEN SlashStr
        ELSE SlashStr \o Join(parentPathParts)

\* One turn of the second pass: folderMap after path is processed.  A
\* folder of the map holds the paths of its children, as the Folder object
\* holds references to them.
AddFolder(folderMap, path) ==
    IF path = SlashStr \/ path \in DOMAIN folderMap THEN folderMap
    ELSE LET newFolder == [name |-> Pop(FilterBoolean(Split(path))), path |-> path,
                           children |-> <<>>]
             parentPath == ParentPathOf(path)
             withNew == [q \in DOMAIN folderMap \cup {path} |->
                            IF q = path THEN newFolder ELSE folderMap[q]]
         IN  IF parentPath \in DOMAIN folderMap
                  /\ path \notin SeqToSet(folderMap[parentPath].children)
             THEN [withNew EXCEPT ![parentPath].children = Append(@, path)]
             ELSE withNew

\* folderMap after the second pass over the first n sorted paths
RECURSIVE FolderMapAfter(_, _)
FolderMapAfter(sortedPaths, n) ==
    IF n = 0
    THEN [q \in {SlashStr} |-> [name |-> RootName, path |-> SlashStr, children |-> <<>>]]
    ELSE AddFolder(FolderMapAfter(sortedPaths, n - 1), sortedPaths[n])

\* The Folder object of path with its children's objects in place of the
\* references
RECURSIVE FolderOf(_, _)
FolderOf(folderMap, path) ==
    [name |-> folderMap[path].name,
     path |-> path,
     children |-> [i \in 1..Len(folderMap[path].children) |->
                      FolderOf(folderMap, folderMap[path].children[i])]]

\* buildFolderStructure(files): [root]
BuildFolderStructure(fileList) ==
    LET sortedPaths == SortedPaths(AllPaths(fileList))
    IN  <<FolderOf(FolderMapAfter(sortedPaths, Len(sortedPaths)), SlashStr)>>

\* findFolder of getSubFolders: the first folder with the path in a
\* depth-first walk, <<>> when there is none, <<folder>> otherwise
RECURSIVE FindFolder(_, _)
FindFolder(folderList, path) ==
    IF Len(folderList) = 0 THEN <<>>
    ELSE IF folderList[1].path = path THEN <<folderList[1]>>
    ELSE LET found == FindFolder(folderList[1].children, path)
         IN  IF Len(found) > 0 THEN found ELSE FindFolder(Tail(folderList), path)

\* getSubFolders(currentPath)
GetSubFolders(folderList, currentPath) ==
    LET currentFolder == FindFolder(folderList, currentPath)
    IN  IF Len(currentFolder) > 0 THEN currentFolder[1].children ELSE <<>>

\* filteredFiles matching the folder as a prefix of the key
InSelectedFolderByPrefix(file, folder) ==
    IF file.isFolder THEN FALSE
    ELSE IF folder = SlashStr THEN ~IncludesSlash(file.fileKey)
    ELSE StartsWith(file.fileKey, Slice1(folder))

\* The predicate of filteredFiles
InSelectedFolder(file, folder) ==
    IF file.isFolder THEN FALSE
    ELSE IF folder = SlashStr THEN ~IncludesSlash(file.fileKey)
    ELSE LET normalizedFolder == IF StartsWith(folder, SlashStr) THEN Slice1(folder) ELSE folder
             filePathWithoutName == Join(SliceDropLast(Split(file.fileKey)))
         IN  filePathWithoutName = normalizedFolder

\* filteredFiles for a selected folder
FilteredFiles(fileList, folder) == SelectSeq(fileList, LAMBDA f : InSelectedFolder(f, folder))

\* The paths of all the folders of a folder list, depth first, with
\* repetitions
RECURSIVE FolderPaths(_)
FolderPaths(folderList) ==
    IF Len(folderList) = 0 THEN <<>>
    ELSE <<folderList[1].path>> \o FolderPaths(folderList[1].children)
         \o FolderPaths(Tail(folderList))

(***************************************************************************)
(* uploadFile (cloudflare-r2.ts).                                          *)
(***************************************************************************)
FILE_SIZE_LIMIT == 10485760

FileOf(name, size) == [name |-> name, size |-> size]

\* The size check with the ceiling itself rejected
UploadFileRejectsAtLimit(file) ==
    LET isFolderMarker == file.name = KEEP
    IN  ~isFolderMarker /\ file.size >= FILE_SIZE_LIMIT

\* The size check of uploadFile: a file over the ceiling is rejected
\* before any store call, a folder marker never
UploadFileRejects(file) ==
    LET isFolderMarker == file.name = KEEP
    IN  ~isFolderMarker /\ file.size > FILE_SIZE_LIMIT

\* fileKey of uploadFile with the folder path used as it is
UploadFileKeyUnstripped(file, folderPath) ==
    IF folderPath # SlashStr THEN folderPath \o SlashStr \o file.name ELSE file.name

\* formattedPath and fileKey of uploadFile
UploadFileKey(file, folderPath) ==
    LET formattedPath == IF folderPath = SlashStr THEN EmptyStr
                         ELSE IF StartsWith(folderPath, SlashStr) THEN Slice1(folderPath)
                         ELSE folderPath
    IN  IF formattedPath # EmptyStr THEN formattedPath \o SlashStr \o file.name
        ELSE file.name

\* The FileMetadata uploadFile returns (name, folderPath, fileKey and
\* isFolder; urls, size and date are left out)
UploadFileMetadata(file, folderPath) ==
    [name |-> file.name, folderPath |-> folderPath,
     fileKey |-> UploadFileKey(file, folderPath), isFolder |-> FALSE]

\* The store calls of one uploadFile call: none when the file is rejected,
\* the put, and after a successful put the presigned GET url
UploadFileStoreCalls(file, folderPath, ok) ==
    IF UploadFileRejects(file) THEN <<>>
    ELSE <<[op |-> "put", key |-> UploadFileKey(file, folderPath), ok |-> ok]>>
         \o (IF ok THEN <<[op |-> "presign", key |-> UploadFileKey(file, folderPath), ok |-> TRUE]>>
             ELSE <<>>)

\* An uploadFile that catches the store's error and returns normally
UploadFileOutcomeSwallowed(file, ok) ==
    IF UploadFileRejects(file) THEN "tooLarge" ELSE "ok"

\* What the caller of uploadFile gets
UploadFileOutcome(file, ok) ==
    IF UploadFileRejects(file) THEN "tooLarge"
    ELSE IF ok THEN "ok" ELSE "storeError"

\* The bucket after one uploadFile call
UploadFileStore(st, file, folderPath, ok) ==
    IF ~UploadFileRejects(file) /\ ok THEN PutObject(st, UploadFileKey(file, folderPath))
    ELSE st

\* One direct call of uploadFile(file, folderPath); ok is the store's
\* answer to the put.
UploadFileCall(file, folderPath, ok) ==
    /\ ufPc = "idle"
    /\ upLast' = [called |-> TRUE, file |-> file, folderPath |-> folderPath,
                  outcome |-> UploadFileOutcome(file, ok),
                  calls |-> UploadFileStoreCalls(file, folderPath, ok)]
    /\ store' = UploadFileStore(store, file, folderPath, ok)
    /\ UNCHANGED <<pageVars, deleteVars, listVars, ufPc, ufEntry, ufBase, ufPlan, ufIdx, ufInflight, ufLog, ufResults>>

(***************************************************************************)
(* uploadFolder (cloudflare-r2.ts).                                        *)
(***************************************************************************)
\* mainFolderPath built without the special case of the root
MainFolderPathJoined(folderEntry, baseFolderPath) ==
    baseFolderPath \o SlashStr \o folderEntry.name

\* mainFolderPath of uploadFolder
MainFolderPath(folderEntry, baseFolderPath) ==
    IF baseFolderPath = SlashStr THEN SlashStr \o folderEntry.name
    ELSE baseFolderPath \o SlashStr \o folderEntry.name

\* buildPath after i + 1 turns of the intermediate-directory loop
RECURSIVE BuildPath(_, _)
BuildPath(pathParts, i) ==
    IF i = 0 THEN EmptyStr
    ELSE LET buildPath == BuildPath(pathParts, i - 1)
         IN  IF buildPath # EmptyStr THEN buildPath \o SlashStr \o pathParts[i]
             ELSE SlashStr \o pathParts[i]

MarkerCall(site, folderPath) ==
    [site |-> site, file |-> FileOf(KEEP, 0), folderPath |-> folderPath]

\* The uploadFile calls of processDirectoryEntries(dirEntry, currentPath),
\* in the order it awaits them: the files of the directory that pass the
\* size filter, then per subdirectory a marker for every level of its path
\* and the subdirectory's own calls.
RECURSIVE ProcessDirectoryEntries(_, _)
ProcessDirectoryEntries(dirEntry, currentPath) ==
    LET entries == dirEntry.entries
        fileEntries == SelectSeq(entries, LAMBDA e :
                     e.isFile /\ (e.size <= FILE_SIZE_LIMIT \/ e.name = KEEP))
        dirs == SelectSeq(entries, LAMBDA e : ~e.isFile)
        fileCalls == [i \in 1..Len(fileEntries) |->
                         [site |-> "file", file |-> FileOf(fileEntries[i].name, fileEntries[i].size),
                          folderPath |-> currentPath]]
        dirCalls(subDirEntry) ==
            LET subFolderPath == currentPath \o SlashStr \o subDirEntry.name
                pathParts == FilterBoolean(Split(subFolderPath))
            IN  [i \in 1..Len(pathParts) |-> MarkerCall("intermediate", BuildPath(pathParts, i))]
                \o ProcessDirectoryEntries(subDirEntry, subFolderPath)
    IN  fileCalls \o Flatten([i \in 1..Len(dirs) |-> dirCalls(dirs[i])])

\* uploadFolder walking the directory before it creates the main marker
UploadFolderPlanMarkerLast(folderEntry, baseFolderPath) ==
    ProcessDirectoryEntries(folderEntry, MainFolderPath(folderEntry, baseFolderPath))
    \o <<MarkerCall("main", MainFolderPath(folderEntry, baseFolderPath))>>

\* The uploadFile calls of uploadFolder, in the order it awaits them
UploadFolderPlan(folderEntry, baseFolderPath) ==
    <<MarkerCall("main", MainFolderPath(folderEntry, baseFolderPath))>>
    \o ProcessDirectoryEntries(folderEntry, MainFolderPath(folderEntry, baseFolderPath))

\* uploadFolder(folderEntry, baseFolderPath) is called.
UploadFolderCall(folderEntry, baseFolderPath) ==
    /\ ufPc = "idle"
    /\ ufPc' = "running"
    /\ ufEntry' = folderEntry
    /\ ufBase' = baseFolderPath
    /\ ufPlan' = UploadFolderPlan(folderEntry, baseFolderPath)
    /\ ufIdx' = 0
    /\ ufInflight' = FALSE
    /\ ufLog' = <<>>
    /\ ufResults' = <<>>
    /\ UNCHANGED <<pageVars, storeVars, deleteVars, listVars, upLast>>

\* The next uploadFile call sends its put; every call is awaited before the
\* next one is made.
UploadFolderIssue ==
    /\ ufPc = "running"
    /\ ~ufInflight
    /\ ufIdx < Len(ufPlan)
    /\ ufInflight' = TRUE
    /\ UNCHANGED <<pageVars, storeVars, deleteVars, listVars, upLast, ufPc, ufEntry, ufBase, ufPlan, ufIdx, ufLog, ufResults>>

\* uploadFolder with no try/catch around its uploadFile calls: a failed put
\* ends the run
UploadFolderAfterPutRethrown(ok) == IF ok THEN "running" ELSE "threw"

\* Where uploadFolder stands after an awaited uploadFile call: every call is
\* in a try/catch that logs the error, so the run goes on either way
UploadFolderAfterPut(ok) == "running"

\* The put in flight completes; its metadata is pushed to results on
\* success, a failure is logged and swallowed.
UploadFolderComplete(ok) ==
    /\ ufPc = "running"
    /\ ufPc' = UploadFolderAfterPut(ok)
    /\ ufInflight
    /\ LET call == ufPlan[ufIdx + 1]
       IN  /\ store' = UploadFileStore(store, call.file, call.folderPath, ok)
           /\ ufLog' = Append(ufLog, [site |-> call.site,
                                      key |-> UploadFileKey(call.file, call.folderPath),
                                      folderPath |-> call.folderPath,
                                      ok |-> ok])
           /\ ufResults' = IF UploadFileOutcome(call.file, ok) = "ok"
                           THEN Append(ufResults, UploadFileMetadata(call.file, call.folderPath))
                           ELSE ufResults
    /\ ufIdx' = ufIdx + 1
    /\ ufInflight' = FALSE
    /\ UNCHANGED <<pageVars, deleteVars, listVars, upLast, ufEntry, ufBase, ufPlan>>

\* processDirectoryEntries of the main folder is over: return results.
UploadFolderReturn ==
    /\ ufPc = "running"
    /\ ~ufInflight
    /\ ufIdx = Len(ufPlan)
    /\ ufPc' = "returned"
    /\ UNCHANGED <<pageVars, storeVars, deleteVars, listVars, upLast, ufEntry, ufBase, ufPlan, ufIdx, ufInflight, ufLog, ufResults>>

\* Files handed to uploadFile: a plain file and a file named .keep, each
\* under, at and over the ceiling
UploadFiles ==
    {FileOf(n, sz) : n \in {NameX, KEEP},
                     sz \in {0, 1, FILE_SIZE_LIMIT, FILE_SIZE_LIMIT + 1}}

\* Target folders of an upload: the root, a top-level folder and a nested one
PathAbB == <<"/", "a", "b", "/", "b">>
UploadBases == {PathRoot, PathAb, PathAbB}

\* Dropped directories: one level; two levels with one file per level (the
\* subdirectory read before the file); three levels with an oversized file
\* and an oversized file named .keep.
TreeFlat == DirEntry(NameA, <<FileEntry(NameX, 1)>>)
TreeTwoLevel ==
    DirEntry(NameA, <<DirEntry(NameB, <<FileEntry(NameY, 1)>>),
                      FileEntry(NameX, 1)>>)
TreeDeep ==
    DirEntry(NameA, <<FileEntry(NameX, FILE_SIZE_LIMIT + 1),
                      DirEntry(NameB, <<FileEntry(KEEP, FILE_SIZE_LIMIT + 1),
                                        DirEntry(NameAB, <<FileEntry(NameY, FILE_SIZE_LIMIT)>>)>>)>>)
UploadTrees == {TreeFlat, TreeTwoLevel, TreeDeep}

\* The bucket uploads start from: the target folders /ab and /ab/b hold a
\* file each and no marker.
UploadStore == {Join(<<NameAB, NameX>>), Join(<<NameAB, NameB, NameX>>)}

\* Direct uploadFile calls, one after the other.
InitUploadFile ==
    /\ store \in {{}, UploadStore}
    /\ DeleteIdle
    /\ ListIdle
    /\ UploadIdle
    /\ PageUnmounted

NextUploadFile ==
    \E f \in UploadFiles, p \in UploadBases, ok \in BOOLEAN : UploadFileCall(f, p, ok)

SpecUploadFile == InitUploadFile /\ [][NextUploadFile]_vars

\* One uploadFolder run of a dropped directory into a target folder.
InitUploadFolder ==
    /\ store = UploadStore
    /\ DeleteIdle
    /\ ListIdle
    /\ UploadIdle
    /\ PageUnmounted

NextUploadFolder ==
    \/ \E e \in UploadTrees, p \in UploadBases : UploadFolderCall(e, p)
    \/ UploadFolderIssue
    \/ \E ok \in BOOLEAN : UploadFolderComplete(ok)
    \/ UploadFolderReturn

SpecUploadFolder == InitUploadFolder /\ [][NextUploadFolder]_vars

(***************************************************************************)
(* Properties of uploadFile and uploadFolder.                              *)
(***************************************************************************)
\* The object key of a file named name in the logical folder path, as the
\* specification defines it: the path without its leading slash, joined to
\* the name by a slash; the name alone in the root
KeyInFolder(folderPath, name) ==
    IF folderPath = PathRoot THEN name
    ELSE Slice1(folderPath) \o SlashStr \o name

\* C7: uploadFile of a file that is no marker and is strictly over the
\* 10,485,760-byte ceiling fails as too large without any store call; a
\* file named .keep over the ceiling is not rejected and its put is issued;
\* a file of exactly the ceiling is not rejected.
C7_SizeCeiling ==
    upLast.called =>
        /\ (upLast.file.name # KEEP /\ upLast.file.size > 10485760)
               => (upLast.outcome = "tooLarge" /\ upLast.calls = <<>>)
        /\ (upLast.file.name = KEEP /\ upLast.file.size > 10485760)
               => (/\ upLast.outcome # "tooLarge"
                   /\ Len(upLast.calls) >= 1
                   /\ upLast.calls[1].op = "put"
                   /\ upLast.calls[1].key = KeyInFolder(upLast.folderPath, KEEP)
                   /\ (upLast.outcome = "ok" => KeyInFolder(upLast.folderPath, KEEP) \in store))
        /\ upLast.file.size = 10485760 => upLast.outcome # "tooLarge"

\* C7 witness: a plain file one byte over the ceiling was handed to
\* uploadFile and rejected.
C7_Witness ==
    /\ upLast.called
    /\ upLast.file = FileOf(NameX, 10485761)
    /\ upLast.outcome = "tooLarge"

\* C18: when uploadFile(file, P) has put its object, the key of the put is
\* P without its leading slash, a slash and the file name (the name alone
\* for the root), and the folder path listFiles derives from that key is P
\* again.
C18_KeyPathRoundTrip ==
    (upLast.called /\ upLast.outcome = "ok") =>
        /\ upLast.calls[1].key = KeyInFolder(upLast.folderPath, upLast.file.name)
        /\ upLast.calls[1].key \in store
        /\ FileObject(upLast.calls[1].key).folderPath = upLast.folderPath
        /\ FileObject(upLast.calls[1].key).name = upLast.file.name

\* C18 witness: the file x was put into the nested folder /ab/b, and
\* before that a file into the root.
C18_Witness ==
    /\ upLast.called
    /\ upLast.outcome = "ok"
    /\ upLast.folderPath = PathAbB
    /\ upLast.file.name = NameX
    /\ NameX \in store

\* The logical path of the top folder of a tree dropped into target
DroppedTopPath(folderEntry, target) ==
    IF target = PathRoot THEN SlashStr \o folderEntry.name
    ELSE target \o SlashStr \o folderEntry.name

\* The logical paths of the directories of a dropped tree rooted at path
RECURSIVE TreeDirPaths(_, _)
TreeDirPaths(dirEntry, path) ==
    {path} \cup UNION { TreeDirPaths(dirEntry.entries[i], path \o SlashStr \o dirEntry.entries[i].name) :
                          i \in {j \in 1..Len(dirEntry.entries) : ~dirEntry.entries[j].isFile} }

\* The keys of the files of a dropped tree that are within the ceiling
RECURSIVE TreeFileKeys(_, _)
TreeFileKeys(dirEntry, path) ==
    { KeyInFolder(path, dirEntry.entries[i].name) :
        i \in {j \in 1..Len(dirEntry.entries) :
                 dirEntry.entries[j].isFile /\ dirEntry.entries[j].size <= 10485760} }
    \cup UNION { TreeFileKeys(dirEntry.entries[i], path \o SlashStr \o dirEntry.entries[i].name) :
                   i \in {j \in 1..Len(dirEntry.entries) : ~dirEntry.entries[j].isFile} }

\* One marker per directory of the dropped tree and one object per file
\* within the ceiling
TreeObjectKeys(folderEntry, target) ==
    LET top == DroppedTopPath(folderEntry, target)
    IN  {KeyInFolder(d, KEEP) : d \in TreeDirPaths(folderEntry, top)}
        \cup TreeFileKeys(folderEntry, top)

\* C9: when uploadFolder of a tree dropped into target folder T has
\* returned and the store accepted every put, the objects it put are exactly
\* one marker per directory of the tree and one object per file within the
\* ceiling: nothing outside the tree's own prefix, no marker for T or for an
\* ancestor of T.
C9_UploadFolderObjects ==
    (ufPc = "returned" /\ \A i \in 1..Len(ufLog) : ufLog[i].ok)
        => {ufLog[i].key : i \in 1..Len(ufLog)} = TreeObjectKeys(ufEntry, ufBase)

\* C11: uploadFolder never ends by raising the failure of a put, and when it
\* has returned, a put was attempted for the marker of every directory of
\* the dropped tree and for every file of the tree within the ceiling,
\* whichever puts the store failed.
C11_FailureDoesNotAbort ==
    /\ ufPc \in {"idle", "running", "returned"}
    /\ ufPc = "returned" =>
           /\ Len(ufLog) = Len(ufPlan)
           /\ TreeObjectKeys(ufEntry, ufBase) \subseteq {ufLog[i].key : i \in 1..Len(ufLog)}

\* C11 witness: uploadFolder has returned from a run in which the store
\* failed the put of a marker and the put of a file, and a later put of a
\* file of a subdirectory was attempted and accepted.
C11_Witness ==
    /\ ufPc = "returned"
    /\ \E i, j, k \in 1..Len(ufLog) :
           /\ i < k /\ j < k
           /\ ufLog[i].site # "file" /\ ~ufLog[i].ok
           /\ ufLog[j].site = "file" /\ ~ufLog[j].ok
           /\ ufLog[k].site = "file" /\ ufLog[k].ok

\* What onDrop tells the user about a dropped directory once uploadFolder
\* has returned uploadedFiles: a success toast with the number of items when
\* there is any, nothing otherwise
OnDropFolderToast(uploadedFiles) ==
    IF Len(uploadedFiles) > 0
    THEN [outcome |-> "success", count |-> Len(uploadedFiles), failed |-> <<>>]
    ELSE [outcome |-> "none", count |-> 0, failed |-> <<>>]

\* The puts of the run the store failed
FailedPuts == SelectSeq(ufLog, LAMBDA c : ~c.ok)

\* C12: when uploadFolder has returned from a run in which at least one put
\* failed and at least one succeeded, what the user is told is not the
\* plain success: it has the number of succeeded puts and one entry per
\* failed put.
C12_PartialFailureReported ==
    (ufPc = "returned" /\ Len(FailedPuts) > 0 /\ Len(FailedPuts) < Len(ufLog)) =>
        /\ OnDropFolderToast(ufResults).outcome # "success"
        /\ OnDropFolderToast(ufResults).count = Len(ufLog) - Len(FailedPuts)
        /\ Len(OnDropFolderToast(ufResults).failed) = Len(FailedPuts)

\* The uploadFile calls of the run whose put has been issued: the completed
\* ones and the one in flight
IssuedCalls == SubSeq(ufPlan, 1, ufIdx + (IF ufInflight THEN 1 ELSE 0))

\* Directory d of the dropped tree must have its marker before call c
\* starts: d holds the file of c, or d is a proper ancestor of its folder
NeedsMarkerOf(c, d) ==
    \/ StartsWith(c.folderPath, d \o SlashStr)
    \/ (c.folderPath = d /\ c.site = "file")

\* C10: in uploadFolder, when the put of a file located in directory D of
\* the dropped tree or below D, or the marker put of a directory below D, is
\* issued, a marker put for D has been issued and has completed before.
C10_MarkersFirst ==
    ufPc # "idle" =>
        \A i \in 1..Len(IssuedCalls) :
            \A d \in TreeDirPaths(ufEntry, DroppedTopPath(ufEntry, ufBase)) :
                NeedsMarkerOf(IssuedCalls[i], d)
                    => \E j \in 1..Len(ufLog) :
                           /\ j < i
                           /\ ufLog[j].site # "file"
                           /\ ufLog[j].key = KeyInFolder(d, KEEP)

\* C10 witness: the put of the nested file y of the two-level tree is in
\* flight, after the markers of both directories.
C10_Witness ==
    /\ ufPc = "running"
    /\ ufEntry = TreeTwoLevel
    /\ ufBase = PathAb
    /\ ufInflight
    /\ ufPlan[ufIdx + 1].site = "file"
    /\ ufPlan[ufIdx + 1].file.name = NameY

\* The prefix taken as the path without its leading slash, no slash added
\* at its end (the prefix listFiles uses)
DeleteFolderPrefixBare(folderPath) ==
    IF StartsWith(folderPath, SlashStr) THEN Slice1(folderPath) ELSE folderPath

(***************************************************************************)
(* deleteFile and deleteFolder (cloudflare-r2.ts).                         *)
(***************************************************************************)
\* normalizedPath and prefix of deleteFolder
DeleteFolderPrefix(folderPath) ==
    LET normalizedPath == IF EndsWith(folderPath, SlashStr) THEN folderPath
                          ELSE folderPath \o SlashStr
    IN  IF StartsWith(normalizedPath, SlashStr) THEN Slice1(normalizedPath)
        ELSE normalizedPath

\* deleteFolder listing with the delimiter of listFiles: one level only
DeleteFolderListingDelimited(st, folderPath) ==
    ListObjectsV2(st, DeleteFolderPrefix(folderPath), TRUE).Contents

\* The Contents deleteFolder gets from its single listing
DeleteFolderListing(st, folderPath) ==
    ListObjectsV2(st, DeleteFolderPrefix(folderPath), FALSE).Contents

\* deleteFolder is called: it lists the prefix and returns at once when the
\* listing is empty.
DeleteFolderCall(r, folderPath) ==
    /\ dfPc[r] = "idle"
    /\ LET Contents == DeleteFolderListing(store, folderPath)
       IN  /\ dfContents' = [dfContents EXCEPT ![r] = Contents]
           /\ dfPc' = [dfPc EXCEPT ![r] = IF Len(Contents) = 0 THEN "returned" ELSE "deleting"]
    /\ dfFolderPath' = [dfFolderPath EXCEPT ![r] = folderPath]
    /\ dfIdx' = [dfIdx EXCEPT ![r] = 1]
    /\ dfCalls' = [dfCalls EXCEPT ![r] = <<>>]
    /\ dfListed' = [dfListed EXCEPT ![r] = store]
    /\ UNCHANGED <<storeVars, uploadVars, pageVars, listVars>>

\* One turn of the for loop: deleteFile(item.Key); a store failure is
\* rethrown by deleteFile and by deleteFolder.
DeleteFolderStep(r, ok) ==
    /\ dfPc[r] = "deleting"
    /\ LET key == dfContents[r][dfIdx[r]]
       IN  /\ dfCalls' = [dfCalls EXCEPT ![r] = Append(@, [key |-> key, ok |-> ok])]
           /\ store' = IF ok THEN DeleteObject(store, key) ELSE store
    /\ dfIdx' = [dfIdx EXCEPT ![r] = @ + 1]
    /\ dfPc' = [dfPc EXCEPT ![r] =
                   IF ~DeleteObjectAnswer(store, dfContents[r][dfIdx[r]], ok) THEN "threw"
                   ELSE IF dfIdx[r] = Len(dfContents[r]) THEN "returned"
                   ELSE "deleting"]
    /\ UNCHANGED <<dfFolderPath, dfContents, dfListed, uploadVars, pageVars, listVars>>

\* The caller has the outcome; the run may be started again.
DeleteFolderDone(r) ==
    /\ dfPc[r] \in {"returned", "threw"}
    /\ dfPc' = [dfPc EXCEPT ![r] = "idle"]
    /\ dfFolderPath' = [dfFolderPath EXCEPT ![r] = PathRoot]
    /\ dfContents' = [dfContents EXCEPT ![r] = <<>>]
    /\ dfIdx' = [dfIdx EXCEPT ![r] = 1]
    /\ dfCalls' = [dfCalls EXCEPT ![r] = <<>>]
    /\ dfListed' = [dfListed EXCEPT ![r] = {}]
    /\ UNCHANGED <<storeVars, uploadVars, pageVars, listVars>>

\* One deleteFolder run at a time against any bucket of DeleteUniverse.
InitDelete ==
    /\ store \in SUBSET DeleteUniverse
    /\ DeleteIdle
    /\ ListIdle
    /\ UploadIdle
    /\ PageUnmounted

NextDelete ==
    \/ \E p \in DeleteFolderPaths : DeleteFolderCall(1, p)
    \/ \E ok \in BOOLEAN : DeleteFolderStep(1, ok)
    \/ DeleteFolderDone(1)

SpecDelete == InitDelete /\ [][NextDelete]_vars

(***************************************************************************)
(* Properties of deleteFolder.                                             *)
(***************************************************************************)
\* The key prefix "P/" of a logical folder path P = "/..." without a
\* trailing slash, as the specification defines it
FolderKeyPrefix(folderPath) == Slice1(folderPath) \o SlashStr

\* Keys of a bucket under the prefix of a non-root folder path
KeysUnder(st, folderPath) == {k \in st : StartsWith(k, FolderKeyPrefix(folderPath))}

\* Keys a run asked the store to delete
DeletedKeys(r) == [i \in 1..Len(dfCalls[r]) |-> dfCalls[r][i].key]

\* C1: a deleteFolder call with the root path "/" ends in a
\* forbidden-operation failure and issues no delete call to the store.
C1_RootDeleteForbidden ==
    \A r \in RunIds :
        (dfPc[r] # "idle" /\ dfFolderPath[r] = PathRoot)
            => (dfPc[r] = "forbidden" /\ dfCalls[r] = <<>>)

\* C3: when deleteFolder(P), P not the root, has returned successfully and
\* the keys under P/ fitted in one listing response, it issued exactly one
\* delete call per key under P/ (markers included) and no key under P/ is
\* left in the bucket.
C3_DeleteFolderOnePage ==
    \A r \in RunIds :
        (/\ dfPc[r] = "returned"
         /\ dfFolderPath[r] # PathRoot
         /\ Cardinality(KeysUnder(dfListed[r], dfFolderPath[r])) <= MaxKeys)
            => (/\ Len(dfCalls[r]) = Cardinality(KeysUnder(dfListed[r], dfFolderPath[r]))
                /\ SeqToSet(DeletedKeys(r)) = KeysUnder(dfListed[r], dfFolderPath[r])
                /\ KeysUnder(store, dfFolderPath[r]) = {})

\* C3 witness: a run on /a/b has returned after deleting the file and the
\* marker of that folder, while keys of other folders remain.
C3_Witness ==
    /\ dfPc[1] = "returned"
    /\ dfFolderPath[1] = PathAB
    /\ KeysUnder(dfListed[1], PathAB) = {Join(<<NameA, NameB, NameX>>), Join(<<NameA, NameB, KEEP>>)}
    /\ Len(dfCalls[1]) = 2
    /\ store # {}

\* C4: whenever deleteFolder(P), P not the root, has returned successfully,
\* no key under P/ is left in the bucket, however many keys there were.
C4_DeleteFolderAllPages ==
    \A r \in RunIds :
        (dfPc[r] = "returned" /\ dfFolderPath[r] # PathRoot)
            => KeysUnder(store, dfFolderPath[r]) = {}

\* C13: when a deleteFolder run on a folder other than the root has ended,
\* by returning or by raising,
\* every key of its listing got a delete call, also the keys listed after
\* one whose delete the store failed.
C13_DeleteGoesOnAfterFailure ==
    \A r \in RunIds :
        (dfPc[r] \in {"returned", "threw"} /\ dfFolderPath[r] # PathRoot)
            => SeqToSet(dfContents[r]) \subseteq SeqToSet(DeletedKeys(r))

(***************************************************************************)
(* The page: fetchFiles (page.tsx).                                        *)
(***************************************************************************)
\* The effect on refreshTrigger runs: fetchFiles sets loading and sends its
\* listing requests, which see the bucket as it is.
FetchFilesStart ==
    /\ effectPending
    /\ effectPending' = FALSE
    /\ fetches' = Append(fetches, store)
    /\ loading' = TRUE
    /\ relistOwed' = FALSE
    /\ UNCHANGED <<cfLast, toast, rel, storeVars, deleteVars, listVars, uploadVars, files, folders, selectedFolder, batch,
                   batchReport, opsLeft>>

RemoveAt(seq, i) == SubSeq(seq, 1, i - 1) \o SubSeq(seq, i + 1, Len(seq))

\* A fetchFiles pass in flight ends: with the listing it sets files and the
\* folder structure built from it; a failed listing leaves both.  Either
\* way loading is reset.
FetchFilesEnd(i, ok) ==
    /\ i \in 1..Len(fetches)
    /\ LET allFiles == ListFilesRoot(fetches[i])
       IN  IF ok
           THEN /\ files' = allFiles
                /\ folders' = BuildFolderStructure(allFiles)
           ELSE UNCHANGED <<files, folders>>
    /\ fetches' = RemoveAt(fetches, i)
    /\ loading' = FALSE
    /\ UNCHANGED <<cfLast, toast, rel, storeVars, deleteVars, listVars, uploadVars, selectedFolder, batch, batchReport,
                   effectPending, relistOwed, opsLeft>>

\* The page as mounted on the bucket: the initial state of FileExplorer
\* with the first fetchFiles pass in flight
PageMounted ==
    /\ files = <<>>
    /\ folders = initialFolders
    /\ selectedFolder = SlashStr
    /\ loading = TRUE
    /\ fetches = <<store>>
    /\ batch = NoBatch
    /\ batchReport = NoReport
    /\ effectPending = FALSE
    /\ relistOwed = FALSE
    /\ cfLast = NoCreate
    /\ toast = NoToast
    /\ rel = NoRelative

(***************************************************************************)
(* The first listing of any bucket and the folder tree built from it.      *)
(***************************************************************************)
NameC == <<"c">>

\* Keys of the listed buckets: files and markers down to three folder
\* levels, sibling folders with a common name prefix
TreeUniverse ==
    { NameX,
      Join(<<NameA, NameB, NameX>>),
      Join(<<NameA, NameB, NameC, NameY>>),
      Join(<<NameA, KEEP>>),
      Join(<<NameAB, NameC, KEEP>>),
      Join(<<NameB, NameA, NameX>>),
      Join(<<NameB, NameY>>) }

InitTree ==
    /\ store \in SUBSET TreeUniverse
    /\ DeleteIdle
    /\ ListIdle
    /\ UploadIdle
    /\ PageMounted
    /\ opsLeft = 0

NextTree == \E i \in 1..Len(fetches), ok \in BOOLEAN : FetchFilesEnd(i, ok)

SpecTree == InitTree /\ [][NextTree]_vars

(***************************************************************************)
(* Properties of buildFolderStructure.                                     *)
(***************************************************************************)
\* The ancestor folder paths of a key (its parent chain without the root):
\* for every slash of the key, leading slash aside, the text before it
AncestorPaths(key) ==
    LET k == IF StartsWith(key, SlashStr) THEN Slice1(key) ELSE key
    IN  {SlashStr \o SubSeq(k, 1, i - 1) : i \in {j \in 1..Len(k) : k[j] = "/"}}

\* The logical path one level up
UpOneLevel(path) ==
    IF LastIndexOfSlash(path) <= 1 THEN SlashStr
    ELSE SubSeq(path, 1, LastIndexOfSlash(path) - 1)

\* How many nodes of the folder structure have the path
NodeCount(folderList, path) ==
    Cardinality({i \in 1..Len(FolderPaths(folderList)) : FolderPaths(folderList)[i] = path})

\* The node of path is among the children of the node of its parent path
AttachedToParent(folderList, path) ==
    LET parent == FindFolder(folderList, UpOneLevel(path))
    IN  /\ Len(parent) = 1
        /\ \E i \in 1..Len(parent[1].children) : parent[1].children[i].path = path

\* The page shows the result of a listing
Listed == fetches = <<>> /\ Len(files) > 0

\* C2: the folder structure built from listed records has exactly one root
\* node with path "/", and every ancestor folder path of every record's key
\* is the path of exactly one node, a child of the node of its parent path;
\* no path is the path of two nodes.
C2_TreeOfAncestors ==
    Listed =>
        /\ Len(folders) = 1
        /\ folders[1].path = SlashStr
        /\ NodeCount(folders, SlashStr) = 1
        /\ \A i \in 1..Len(files) :
               \A q \in AncestorPaths(files[i].fileKey) :
                   /\ NodeCount(folders, q) = 1
                   /\ AttachedToParent(folders, q)
        /\ \A q \in SeqToSet(FolderPaths(folders)) : NodeCount(folders, q) = 1

\* C2 witness: the listing held a file three folders deep and a file of
\* another top-level folder, and the tree has the chain /a, /a/b, /a/b/c.
C2_Witness ==
    /\ Listed
    /\ \E i \in 1..Len(files) : files[i].fileKey = Join(<<NameA, NameB, NameC, NameY>>)
    /\ \E i \in 1..Len(files) : files[i].fileKey = Join(<<NameB, NameY>>)
    /\ NodeCount(folders, SlashStr \o Join(<<NameA, NameB, NameC>>)) = 1


(***************************************************************************)
(* Properties of filteredFiles on a listing.                               *)
(***************************************************************************)
\* The name part of a key: what follows its last slash
BaseName(key) == SubSeq(key, LastIndexOfSlash(key) + 1, Len(key))

\* The keys of a bucket that are no markers and lie directly in the folder:
\* the folder's key, a slash and a name, or for the root a name alone
DirectFileKeys(st, folder) ==
    {k \in st : /\ BaseName(k) # KEEP
                /\ IF folder = SlashStr THEN LastIndexOfSlash(k) = 0
                   ELSE k = Slice1(folder) \o SlashStr \o BaseName(k)}

\* Every folder path of the listed buckets, and the root
BrowsedFolders == {SlashStr} \cup UNION {AncestorPaths(k) : k \in TreeUniverse}

\* The bucket of the worked example: a file at the root, a file two folders
\* deep and a file three folders deep
ExampleKeys ==
    {NameX, Join(<<NameA, NameB, NameX>>), Join(<<NameA, NameB, NameC, NameY>>)}

ExampleTree ==
    <<[name |-> RootName, path |-> SlashStr, children |->
        <<[name |-> NameA, path |-> SlashStr \o NameA, children |->
            <<[name |-> NameB, path |-> SlashStr \o Join(<<NameA, NameB>>), children |->
                <<[name |-> NameC, path |-> SlashStr \o Join(<<NameA, NameB, NameC>>),
                   children |-> <<>>]>>]>>]>>]>>

FolderRecordPath(record) ==
    SlashStr \o Join(FilterBoolean(Split(record.fileKey)))

\* C16: after a listing, whatever the number of keys in the bucket, the
\* records of listFiles('/') have a file record for every key of the bucket
\* that is no marker and a folder record for every ancestor folder of
\* every key.
C16_ListsWholeBucket ==
    Listed =>
        /\ \A k \in store :
               BaseName(k) # KEEP
                   => \E i \in 1..Len(files) : ~files[i].isFolder /\ files[i].fileKey = k
        /\ \A k \in store : \A q \in AncestorPaths(k) :
               \E i \in 1..Len(files) : files[i].isFolder /\ FolderRecordPath(files[i]) = q

(***************************************************************************)
(* Direct listFiles calls on any bucket.                                   *)
(***************************************************************************)
InitList ==
    /\ store \in SUBSET DeleteUniverse
    /\ DeleteIdle
    /\ ListIdle
    /\ UploadIdle
    /\ PageUnmounted

NextList == \E folderPath \in DeleteFolderPaths : ListFilesCall(folderPath)

SpecList == InitList /\ [][NextList]_vars

\* The folder paths of a bucket directly below a folder
DirectSubFolders(st, folder) ==
    {q \in UNION {AncestorPaths(k) : k \in st} : UpOneLevel(q) = folder}

\* C17: listFiles(F) for a folder F other than the root returns, for a
\* bucket that fits in one listing response, exactly the file records of
\* the keys that are no markers and lie directly in F and one folder record
\* per folder directly below F.
C17_ImmediateChildrenOnly ==
    (lfLast.called /\ lfLast.folderPath # SlashStr /\ Cardinality(store) <= MaxKeys) =>
        LET fileRecords == SelectSeq(lfLast.result, LAMBDA f : ~f.isFolder)
            folderRecords == SelectSeq(lfLast.result, LAMBDA f : f.isFolder)
        IN  /\ {fileRecords[i].fileKey : i \in 1..Len(fileRecords)}
                   = DirectFileKeys(store, lfLast.folderPath)
            /\ {FolderRecordPath(folderRecords[i]) : i \in 1..Len(folderRecords)}
                   = DirectSubFolders(store, lfLast.folderPath)

(***************************************************************************)
(* The page: the handlers of FileExplorer (page.tsx).  A handler's state   *)
(* updates after its await are committed together; the effect on           *)
(* refreshTrigger runs after that commit.                                  *)
(***************************************************************************)
MaxOps == 2

Space == " "

\* String.prototype.trim for spaces
RECURSIVE TrimStart(_)
TrimStart(str) ==
    IF Len(str) > 0 /\ str[1] = Space THEN TrimStart(Tail(str)) ELSE str

RECURSIVE TrimEnd(_)
TrimEnd(str) ==
    IF Len(str) > 0 /\ str[Len(str)] = Space THEN TrimEnd(SubSeq(str, 1, Len(str) - 1)) ELSE str

Trim(str) == TrimEnd(TrimStart(str))

\* The trimmed folder name with every character kept
TrimmedFolderName(newFolderName) == Trim(newFolderName)

\* newFolderName.trim().replace(/[\/\\:*?"<>|]/g, '_')
SanitizeFolderName(newFolderName) ==
    [i \in 1..Len(Trim(newFolderName)) |->
        IF Trim(newFolderName)[i] \in {"/", "\\", ":", "*", "?", "\"", "<", ">", "|"}
        THEN "_" ELSE Trim(newFolderName)[i]]

\* updateFolders of handleDeleteFolder: the folder list without the folders
\* of the path, at every level
RECURSIVE RemoveFolder(_, _)
RemoveFolder(folderList, path) ==
    LET kept == SelectSeq(folderList, LAMBDA f : f.path # path)
    IN  [i \in 1..Len(kept) |->
            [name |-> kept[i].name, path |-> kept[i].path,
             children |-> RemoveFolder(kept[i].children, path)]]

\* updateFolders of handleCreateFolder: newFolder appended to the children
\* of every folder with the selected path; the children of the others are
\* walked
RECURSIVE AppendFolder(_, _, _)
AppendFolder(folderList, selected, newFolder) ==
    [i \in 1..Len(folderList) |->
        IF folderList[i].path = selected
        THEN [folderList[i] EXCEPT !.children = Append(@, newFolder)]
        ELSE [folderList[i] EXCEPT !.children = AppendFolder(@, selected, newFolder)]]

\* A folder of the sidebar tree is clicked.
SetSelectedFolder(path) ==
    /\ path \in SeqToSet(FolderPaths(folders))
    /\ path # selectedFolder
    /\ selectedFolder' = path
    /\ UNCHANGED <<cfLast, toast, rel, storeVars, deleteVars, listVars, uploadVars, files, folders, loading, fetches, batch,
                   batchReport, effectPending, relistOwed, opsLeft>>

\* deleteFile(fileKey) as its caller sees it: it returns when the store
\* accepted the delete and rethrows the store's error otherwise.
DeleteFileOutcome(ok) == IF ok THEN "ok" ELSE "storeError"

\* handleDeleteFile(file) for the j-th file shown; ok is the store's answer
\* to the delete.
HandleDeleteFile(j, ok) ==
    /\ opsLeft > 0
    /\ ~loading
    /\ j \in 1..Len(FilteredFiles(files, selectedFolder))
    /\ LET file == FilteredFiles(files, selectedFolder)[j]
       IN  /\ store' = IF ok THEN DeleteObject(store, file.fileKey) ELSE store
           /\ IF DeleteFileOutcome(ok) = "ok"
              THEN /\ files' = SelectSeq(files, LAMBDA f : f.fileKey # file.fileKey)
                   /\ relistOwed' = (relistOwed \/ file.fileKey \in store)
                   /\ toast' = [op |-> "deleteFile", kind |-> "success"]
              ELSE /\ toast' = [op |-> "deleteFile", kind |-> "error"]
                   /\ UNCHANGED <<files, relistOwed>>
    /\ loading' = FALSE
    /\ opsLeft' = opsLeft - 1
    /\ UNCHANGED <<cfLast, rel, deleteVars, listVars, uploadVars, folders, selectedFolder, fetches, batch, batchReport,
                   effectPending>>

\* The keys a deleteFolder run removes when its failAt-th deleteFile fails
\* (0: none fails)
DeleteFolderRemoved(st, folderPath, failAt) ==
    LET Contents == DeleteFolderListing(st, folderPath)
    IN  {Contents[k] : k \in 1..(IF failAt = 0 THEN Len(Contents) ELSE failAt - 1)}

\* handleDeleteFolder(folder) for the j-th sub-folder shown.
HandleDeleteFolder(j, failAt) ==
    /\ opsLeft > 0
    /\ ~loading
    /\ j \in 1..Len(GetSubFolders(folders, selectedFolder))
    /\ LET folder == GetSubFolders(folders, selectedFolder)[j]
           removed == DeleteFolderRemoved(store, folder.path, failAt)
       IN  /\ failAt \in 0..Len(DeleteFolderListing(store, folder.path))
           /\ IF folder.path = SlashStr
              THEN /\ toast' = [op |-> "deleteFolder", kind |-> "error"]
                   /\ UNCHANGED <<store, folders, selectedFolder, effectPending, relistOwed,
                                  loading>>
              ELSE /\ store' = store \ removed
                   /\ relistOwed' = (relistOwed \/ removed # {})
                   /\ loading' = FALSE
                   /\ IF failAt = 0
                      THEN /\ folders' = RemoveFolder(folders, folder.path)
                           /\ selectedFolder' = IF selectedFolder = folder.path
                                                THEN ParentPathOf(folder.path)
                                                ELSE selectedFolder
                           /\ toast' = [op |-> "deleteFolder", kind |-> "success"]
                           /\ effectPending' = TRUE
                      ELSE /\ toast' = [op |-> "deleteFolder", kind |-> "error"]
                           /\ UNCHANGED <<folders, selectedFolder, effectPending>>
    /\ opsLeft' = opsLeft - 1
    /\ UNCHANGED <<cfLast, rel, deleteVars, listVars, uploadVars, files, fetches, batch, batchReport>>

\* handleCreateFolder() with the name typed; ok is the store's answer to
\* the put of the marker.
HandleCreateFolder(newFolderName, ok) ==
    /\ opsLeft > 0
    /\ opsLeft' = opsLeft - 1
    /\ IF Trim(newFolderName) = EmptyStr
       THEN /\ cfLast' = [NoCreate EXCEPT !.called = TRUE, !.newFolderName = newFolderName,
                                           !.parent = selectedFolder]
            /\ toast' = [op |-> "createFolder", kind |-> "error"]
            /\ UNCHANGED <<store, folders, effectPending, relistOwed, loading>>
       ELSE LET sanitizedFolderName == SanitizeFolderName(newFolderName)
                newFolderPath == IF selectedFolder = SlashStr
                                 THEN SlashStr \o sanitizedFolderName
                                 ELSE selectedFolder \o SlashStr \o sanitizedFolderName
                markerFile == FileOf(KEEP, 0)
                newFolder == [name |-> sanitizedFolderName, path |-> newFolderPath,
                              children |-> <<>>]
            IN  /\ store' = UploadFileStore(store, markerFile, newFolderPath, ok)
                /\ cfLast' = [called |-> TRUE, newFolderName |-> newFolderName,
                              parent |-> selectedFolder, file |-> markerFile,
                              calls |-> UploadFileStoreCalls(markerFile, newFolderPath, ok)]
                /\ loading' = FALSE
                /\ IF UploadFileOutcome(markerFile, ok) = "ok"
                   THEN /\ folders' = AppendFolder(folders, selectedFolder, newFolder)
                        /\ toast' = [op |-> "createFolder", kind |-> "success"]
                        /\ effectPending' = TRUE
                        /\ relistOwed' = TRUE
                   ELSE /\ toast' = [op |-> "createFolder", kind |-> "error"]
                        /\ UNCHANGED <<folders, effectPending, relistOwed>>
    /\ UNCHANGED <<rel, deleteVars, listVars, uploadVars, files, selectedFolder, fetches, batch, batchReport>>


\* validFiles of onDrop
ValidFiles(acceptedFiles) == SelectSeq(acceptedFiles, LAMBDA f : f.size <= FILE_SIZE_LIMIT)

\* onDrop(acceptedFiles) without a directory: through the file input
\* (kind "input") or dropped with dataTransfer items (kind "dataTransfer").
\* uploadFile is called for every valid file and the handler awaits
\* Promise.all of the calls.
OnDrop(acceptedFiles, kind) ==
    /\ opsLeft > 0
    /\ ~batch.active
    /\ opsLeft' = opsLeft - 1
    /\ IF Len(ValidFiles(acceptedFiles)) = 0
       THEN /\ batch' = NoBatch
            /\ batchReport' = [outcome |-> IF kind = "input" THEN "allTooLarge" ELSE "skipped",
                               succeeded |-> {}, failed |-> {}]
            /\ loading' = IF kind = "input" THEN loading ELSE FALSE
       ELSE /\ batch' = [active |-> TRUE, kind |-> kind, folder |-> selectedFolder,
                         validFiles |-> ValidFiles(acceptedFiles),
                         status |-> [i \in 1..Len(ValidFiles(acceptedFiles)) |-> "pending"],
                         settled |-> FALSE]
            /\ batchReport' = NoReport
            /\ loading' = TRUE
    /\ UNCHANGED <<cfLast, toast, rel, storeVars, deleteVars, listVars, uploadVars, files, folders, selectedFolder, fetches,
                   effectPending, relistOwed>>

\* The store answers the put of the i-th uploadFile call of the batch.
\* Promise.all rejects with the first failed call and resolves when every
\* call has succeeded; the handler goes on from there once, the other
\* calls run to their end.
PutAnswer(i, ok) ==
    /\ batch.active
    /\ i \in 1..Len(batch.status)
    /\ batch.status[i] = "pending"
    /\ LET status == [batch.status EXCEPT ![i] = UploadFileOutcome(batch.validFiles[i], ok)]
           rejects == ~batch.settled /\ ~ok
           resolves == ~batch.settled /\ \A k \in 1..Len(status) : status[k] = "ok"
           uploadedFiles == [k \in 1..Len(status) |->
                                UploadFileMetadata(batch.validFiles[k], batch.folder)]
       IN  /\ store' = UploadFileStore(store, batch.validFiles[i], batch.folder, ok)
           /\ batch' = [batch EXCEPT !.status = status,
                                     !.settled = batch.settled \/ rejects \/ resolves,
                                     !.active = \E k \in 1..Len(status) : status[k] = "pending"]
           /\ files' = IF resolves /\ batch.kind = "input" THEN files \o uploadedFiles ELSE files
           /\ batchReport' = IF rejects
                             THEN [outcome |-> "error", succeeded |-> {}, failed |-> {}]
                             ELSE IF resolves
                             THEN [outcome |-> "success",
                                   succeeded |-> {uploadedFiles[k].name : k \in 1..Len(status)},
                                   failed |-> {}]
                             ELSE batchReport
           /\ effectPending' = (effectPending \/ resolves)
           /\ loading' = IF rejects \/ resolves THEN FALSE ELSE loading
           /\ relistOwed' = (relistOwed \/ ok)
    /\ UNCHANGED <<cfLast, toast, rel, deleteVars, listVars, uploadVars, folders, selectedFolder, fetches, opsLeft>>

(***************************************************************************)
(* The page on a bucket.                                                   *)
(***************************************************************************)
PageStore == {NameX, Join(<<NameA, NameX>>), Join(<<NameA, NameB, NameY>>)}

NewFolderNames == {<<"c">>, <<" ">>, <<"a", "/", "b">>}

DroppedFiles ==
    { <<FileOf(KEEP, 0)>>,
      <<FileOf(NameY, 1), FileOf(NameADotX, FILE_SIZE_LIMIT)>>,
      <<FileOf(NameY, FILE_SIZE_LIMIT + 1), FileOf(NameX, 1)>>,
      <<FileOf(NameY, FILE_SIZE_LIMIT + 1)>> }

InitPage ==
    /\ store = PageStore
    /\ DeleteIdle
    /\ ListIdle
    /\ UploadIdle
    /\ PageMounted
    /\ opsLeft = MaxOps

NextPage ==
    \/ FetchFilesStart
    \/ \E i \in 1..Len(fetches), ok \in BOOLEAN : FetchFilesEnd(i, ok)
    \/ \E path \in SeqToSet(FolderPaths(folders)) : SetSelectedFolder(path)
    \/ \E j \in 1..Len(files), ok \in BOOLEAN : HandleDeleteFile(j, ok)
    \/ \E j \in 1..Len(FolderPaths(folders)), failAt \in 0..MaxKeys : HandleDeleteFolder(j, failAt)
    \/ \E newFolderName \in NewFolderNames, ok \in BOOLEAN : HandleCreateFolder(newFolderName, ok)
    \/ \E acceptedFiles \in DroppedFiles, kind \in {"input", "dataTransfer"} :
           OnDrop(acceptedFiles, kind)
    \/ \E i \in 1..Len(batch.status), ok \in BOOLEAN : PutAnswer(i, ok)

SpecPage == InitPage /\ [][NextPage]_vars


(***************************************************************************)
(* Properties of the page.                                                 *)
(***************************************************************************)
\* Every put of a batch of several files has been answered and exactly one
\* of them failed
BatchEndedWithOneFailure ==
    /\ batch.kind # "none"
    /\ ~batch.active
    /\ Len(batch.status) > 1
    /\ Cardinality({k \in 1..Len(batch.status) : batch.status[k] = "storeError"}) = 1

\* C5: when the batch upload of several files has ended and the store
\* failed the put of one of them, the result of the batch names as uploaded
\* every file whose put succeeded and as failed the file whose put failed.
C5_BatchReportsEachFile ==
    BatchEndedWithOneFailure =>
        \A k \in 1..Len(batch.status) :
            /\ batch.status[k] = "ok" => batch.validFiles[k].name \in batchReport.succeeded
            /\ batch.status[k] = "storeError" => batch.validFiles[k].name \in batchReport.failed

\* Nothing of the page is under way: no upload, no listing, no effect to run
PageQuiet == ~batch.active /\ ~effectPending /\ fetches = <<>>

\* C6: once the page is at rest, no handler has changed the bucket without
\* a listing of the bucket started after the change.
C6_MutationThenRelist == PageQuiet => ~relistOwed

\* C8: whenever the file list is shown, no file of filteredFiles for the
\* selected folder has the marker name .keep.
C8_NoMarkerShown ==
    ~loading => \A j \in 1..Len(FilteredFiles(files, selectedFolder)) :
                    FilteredFiles(files, selectedFolder)[j].name # KEEP


(***************************************************************************)
(* The page: a directory dropped on the upload area.                       *)
(***************************************************************************)
\* The puts of an uploadFolder run in which the store fails the puts made at
\* one site of the code ("none": it accepts them all)
UploadFolderLog(plan, failedSite) ==
    [i \in 1..Len(plan) |->
        [site |-> plan[i].site,
         key |-> UploadFileKey(plan[i].file, plan[i].folderPath),
         folderPath |-> plan[i].folderPath,
         ok |-> plan[i].site # failedSite]]

\* onDrop with one directory among the dataTransfer items: uploadFolder of
\* the directory into the selected folder is awaited, the user is told about
\* the items it returned and the listing is refreshed when there is any.
OnDropDirectory(folderEntry, failedSite) ==
    /\ opsLeft > 0
    /\ ufPc \in {"idle", "returned"}
    /\ opsLeft' = opsLeft - 1
    /\ LET plan == UploadFolderPlan(folderEntry, selectedFolder)
           log == UploadFolderLog(plan, failedSite)
           accepted == SelectSeq(log, LAMBDA c : c.ok)
           uploadedFiles == [i \in 1..Len(accepted) |->
                                UploadFileMetadata(FileOf(BaseName(accepted[i].key), 0),
                                                   accepted[i].folderPath)]
       IN  /\ ufPc' = "returned"
           /\ ufEntry' = folderEntry
           /\ ufBase' = selectedFolder
           /\ ufPlan' = plan
           /\ ufIdx' = Len(plan)
           /\ ufInflight' = FALSE
           /\ ufLog' = log
           /\ ufResults' = uploadedFiles
           /\ store' = store \cup {accepted[i].key : i \in 1..Len(accepted)}
           /\ batchReport' = [outcome |-> OnDropFolderToast(uploadedFiles).outcome,
                              succeeded |-> {uploadedFiles[i].name : i \in 1..Len(uploadedFiles)},
                              failed |-> {}]
           /\ effectPending' = (effectPending \/ Len(uploadedFiles) > 0)
           /\ relistOwed' = (relistOwed \/ Len(accepted) > 0)
    /\ loading' = FALSE
    /\ UNCHANGED <<cfLast, toast, rel, deleteVars, listVars, upLast, files, folders, selectedFolder, fetches, batch>>

\* The drops of a single file
DroppedSingleFiles == {acceptedFiles \in DroppedFiles : Len(acceptedFiles) = 1}

NextPageUpload ==
    \/ FetchFilesStart
    \/ \E i \in 1..Len(fetches) : FetchFilesEnd(i, TRUE)
    \/ \E path \in SeqToSet(FolderPaths(folders)) : SetSelectedFolder(path)
    \/ \E newFolderName \in NewFolderNames, ok \in BOOLEAN : HandleCreateFolder(newFolderName, ok)
    \/ \E acceptedFiles \in DroppedSingleFiles : OnDrop(acceptedFiles, "input")
    \/ \E i \in 1..Len(batch.status), ok \in BOOLEAN : PutAnswer(i, ok)
    \/ \E folderEntry \in {TreeFlat, TreeTwoLevel},
          failedSite \in {"none", "main", "file", "intermediate"} :
           OnDropDirectory(folderEntry, failedSite)

\* The page with its handlers that put objects
SpecPageUpload == InitPage /\ [][NextPageUpload]_vars

\* A key is a sequence of non-empty segments joined by slashes: not empty,
\* no slash at either end, no two slashes in a row
WellFormedKey(key) ==
    /\ Len(key) > 0
    /\ key[1] # "/"
    /\ key[Len(key)] # "/"
    /\ \A i \in 1..(Len(key) - 1) : ~(key[i] = "/" /\ key[i + 1] = "/")

\* C19: every object the page has put into the bucket, by a file upload, by
\* a folder creation or by the upload of a dropped directory, from whatever
\* folder was selected, and every key uploadFolder tried to put, is not
\* empty, has no leading slash and has no doubled slash.
C19_KeysWellFormed ==
    /\ \A k \in store : WellFormedKey(k)
    /\ \A i \in 1..Len(ufLog) : WellFormedKey(ufLog[i].key)

\* C19 witness: a folder was created inside /a and a directory was then
\* dropped into /a, all its puts accepted.
C19_Witness ==
    /\ Join(<<NameA, <<"a", "_", "b">>, KEEP>>) \in store
    /\ ufPc = "returned"
    /\ ufBase = PathA
    /\ Join(<<NameA, NameA, NameB, NameY>>) \in store


\* The characters a folder name must not keep
HostileChars == {"/", "\\", ":", "*", "?", "\"", "<", ">", "|"}

\* C20: a handleCreateFolder call with a name that is empty once trimmed
\* makes no store call; any other call issues exactly one put, of a
\* zero-byte .keep marker whose key is the key of the parent folder, the
\* trimmed name with each of / \ : * ? " < > | replaced by _, and .keep,
\* joined by slashes, so that the folder lies one level below its parent.
C20_CreateFolderOnePut ==
    cfLast.called =>
        LET trimmed == Trim(cfLast.newFolderName)
            expected == [i \in 1..Len(trimmed) |->
                            IF trimmed[i] \in HostileChars THEN "_" ELSE trimmed[i]]
            puts == SelectSeq(cfLast.calls, LAMBDA c : c.op = "put")
        IN  IF Len(trimmed) = 0
            THEN cfLast.calls = <<>>
            ELSE /\ Len(puts) = 1
                 /\ cfLast.file = [name |-> KEEP, size |-> 0]
                 /\ puts[1].key = KeyInFolder(cfLast.parent, expected) \o SlashStr \o KEEP
                 /\ ~IncludesSlash(expected)
                 /\ puts[1].ok => puts[1].key \in store

\* C20 witness: the name "a/b" was given while /a was selected and the
\* marker a/a_b/.keep was put.
C20_Witness ==
    /\ cfLast.called
    /\ cfLast.newFolderName = <<"a", "/", "b">>
    /\ cfLast.parent = PathA
    /\ Len(cfLast.calls) > 0
    /\ cfLast.calls[1].ok
    /\ Join(<<NameA, <<"a", "_", "b">>, KEEP>>) \in store


\* ---------------------------------------------------------------------
\* Failure of a single-object operation
\* ---------------------------------------------------------------------

\* C21: a handleDeleteFile whose delete the store refuses, and a
\* handleCreateFolder whose marker put the store refuses, end in an error
\* toast (the failure reached the handler, no success is reported) and leave
\* the file list, the folder tree and the bucket as they were.
C21_FailurePropagates ==
    [][ ( \/ \E j \in 1..Len(files) : HandleDeleteFile(j, FALSE)
          \/ \E n \in NewFolderNames : Trim(n) # EmptyStr /\ HandleCreateFolder(n, FALSE) )
        => /\ toast'.kind = "error"
           /\ files' = files
           /\ folders' = folders
           /\ store' = store ]_vars

\* A marker put was refused and later a file delete was refused
C21_Witness ==
    /\ cfLast.called
    /\ Len(cfLast.calls) > 0
    /\ ~cfLast.calls[1].ok
    /\ toast = [op |-> "deleteFile", kind |-> "error"]
    /\ Len(files) > 0


(***************************************************************************)
(* onDrop of a file list with relative paths (a directory picked through   *)
(* the file input): the files are grouped by their top folder; per top     *)
(* folder the marker of the main folder is put and awaited, then one       *)
(* promise per file is started and Promise.all of them is awaited.         *)
(***************************************************************************)
RelFile(name, size, webkitRelativePath) ==
    [name |-> name, size |-> size, webkitRelativePath |-> webkitRelativePath]

\* hasDirectoryStructure of onDrop
HasDirectoryStructure(acceptedFiles) ==
    /\ Len(acceptedFiles) > 0
    /\ acceptedFiles[1].webkitRelativePath # EmptyStr
    /\ IncludesSlash(acceptedFiles[1].webkitRelativePath)

\* directoryMap of onDrop as the list of its entries: the files that have a
\* relative path and are not over the size limit, grouped by the first
\* segment of the path, in the order the top folders first occur
DirectoryMap(acceptedFiles) ==
    LET kept == SelectSeq(acceptedFiles,
                          LAMBDA f : f.webkitRelativePath # EmptyStr /\ f.size <= FILE_SIZE_LIMIT)
        folderNames == Dedup([k \in 1..Len(kept) |-> Split(kept[k].webkitRelativePath)[1]])
    IN  [g \in 1..Len(folderNames) |->
            [folderName |-> folderNames[g],
             files |-> SelectSeq(kept, LAMBDA f : Split(f.webkitRelativePath)[1] = folderNames[g])]]

\* mainFolderPath of a top folder
RelativeMainFolderPath(selected, folderName) ==
    IF selected = SlashStr THEN SlashStr \o folderName
    ELSE selected \o SlashStr \o folderName

\* The uploadFile calls of the promise started for one file: the file
\* itself when it lies directly in the top folder, otherwise the marker of
\* subPath and then the file
RelativeChain(mainFolderPath, file) ==
    LET pathParts == Split(file.webkitRelativePath)
        subPathParts == SliceDropLast(pathParts)
    IN  IF Len(subPathParts) = 1
        THEN <<[file |-> file, folderPath |-> mainFolderPath, marker |-> FALSE]>>
        ELSE LET subPath == mainFolderPath \o SlashStr \o Join(Tail(subPathParts))
             IN  <<[file |-> FileOf(KEEP, 0), folderPath |-> subPath, marker |-> TRUE],
                   [file |-> file, folderPath |-> subPath, marker |-> FALSE]>>

\* An uploadFile call as the run records it when it makes the call
IssuedCall(call, chain, path) ==
    [key |-> UploadFileKey(call.file, call.folderPath), marker |-> call.marker,
     chain |-> chain, path |-> path]

\* The call that puts the marker of the main folder of the g-th top folder
MainMarkerOf(r, g) ==
    [file |-> FileOf(KEEP, 0),
     folderPath |-> RelativeMainFolderPath(r.folder, r.groups[g].folderName),
     marker |-> TRUE]

\* The run after the try block of the current top folder has ended: the
\* marker of the next top folder is put, or the loop is over
RelativeAdvance(r) ==
    IF r.cur < Len(r.groups)
    THEN [r EXCEPT !.cur = r.cur + 1, !.phase = "marker",
                   !.issued = Append(r.issued, IssuedCall(MainMarkerOf(r, r.cur + 1), 0, EmptyStr))]
    ELSE [r EXCEPT !.phase = "idle",
                   !.report = IF r.hasUploadedItems THEN r.report
                              ELSE Append(r.report, [folderName |-> EmptyStr,
                                                     outcome |-> "noValidFiles", count |-> 0])]

\* What the page does when the run reaches r: when the loop is over it
\* resets loading and triggers a refresh if anything was uploaded
RelativePageEffects(r) ==
    /\ rel' = r
    /\ loading' = IF r.phase = "idle" THEN FALSE ELSE loading
    /\ effectPending' = (effectPending \/ (r.phase = "idle" /\ r.hasUploadedItems))

\* No promise of an earlier run is still waiting for the store
RelativeQuiet == \A c \in 1..Len(rel.chains) : rel.chains[c].state # "pending"

\* onDrop(acceptedFiles) with files that carry relative paths
OnDropRelative(acceptedFiles) ==
    /\ opsLeft > 0
    /\ rel.phase = "idle"
    /\ RelativeQuiet
    /\ HasDirectoryStructure(acceptedFiles)
    /\ opsLeft' = opsLeft - 1
    /\ LET groups == DirectoryMap(acceptedFiles)
           started == [NoRelative EXCEPT !.folder = selectedFolder, !.groups = groups]
       IN  IF Len(groups) = 0
           THEN /\ rel' = [started EXCEPT !.report = <<[folderName |-> EmptyStr,
                                                        outcome |-> "noValidFiles", count |-> 0]>>]
                /\ loading' = FALSE
           ELSE /\ rel' = [started EXCEPT !.phase = "marker", !.cur = 1,
                                          !.issued = <<IssuedCall(MainMarkerOf(started, 1), 0, EmptyStr)>>]
                /\ loading' = TRUE
    /\ UNCHANGED <<cfLast, toast, storeVars, deleteVars, listVars, uploadVars, files, folders,
                   selectedFolder, fetches, batch, batchReport, effectPending, relistOwed>>

\* The store answers the put of the marker of the current main folder.
\* When it is accepted the promises of the files of the top folder are
\* started in the order of the files; when it is refused the catch block
\* reports the top folder as failed and the loop goes on.
RelativeMarkerAnswer(ok) ==
    /\ rel.phase = "marker"
    /\ LET marker == MainMarkerOf(rel, rel.cur)
           group == rel.groups[rel.cur]
           validFiles == SelectSeq(group.files, LAMBDA f : f.size <= FILE_SIZE_LIMIT)
           first == Len(rel.chains)
           started == [k \in 1..Len(validFiles) |->
                          [group |-> rel.cur, path |-> validFiles[k].webkitRelativePath,
                           calls |-> RelativeChain(marker.folderPath, validFiles[k]),
                           pos |-> 0, state |-> "pending"]]
           calls == [k \in 1..Len(validFiles) |->
                        IssuedCall(started[k].calls[1], first + k, started[k].path)]
       IN  /\ store' = UploadFileStore(store, marker.file, marker.folderPath, ok)
           /\ relistOwed' = (relistOwed \/ ok)
           /\ IF UploadFileOutcome(marker.file, ok) = "ok"
              THEN RelativePageEffects([rel EXCEPT !.phase = "files",
                                                   !.chains = rel.chains \o started,
                                                   !.issued = rel.issued \o calls])
              ELSE RelativePageEffects(RelativeAdvance(
                       [rel EXCEPT !.report = Append(rel.report,
                                       [folderName |-> group.folderName, outcome |-> "error",
                                        count |-> 0])]))
    /\ UNCHANGED <<cfLast, toast, deleteVars, listVars, uploadVars, files, folders, selectedFolder,
                   fetches, batch, batchReport, opsLeft>>

\* The store answers the put of the call the c-th promise waits for.  An
\* accepted marker put is followed by the call for the file; Promise.all of
\* the current top folder rejects with the first refused put and resolves
\* when every promise has, and the handler goes on from there once; the
\* promises of a top folder already reported run to their end.
RelativePutAnswer(c, ok) ==
    /\ c \in 1..Len(rel.chains)
    /\ rel.chains[c].state = "pending"
    /\ LET chain == rel.chains[c]
           call == chain.calls[chain.pos + 1]
           accepted == UploadFileOutcome(call.file, ok) = "ok"
           last == chain.pos + 1 = Len(chain.calls)
           after == [chain EXCEPT !.pos = IF accepted THEN chain.pos + 1 ELSE chain.pos,
                                  !.state = IF ~accepted THEN "failed"
                                            ELSE IF last THEN "done" ELSE "pending"]
           chains == [rel.chains EXCEPT ![c] = after]
           issued == IF accepted /\ ~last
                     THEN Append(rel.issued, IssuedCall(chain.calls[chain.pos + 2], c, chain.path))
                     ELSE rel.issued
           awaited == rel.phase = "files" /\ chain.group = rel.cur
           mine == {k \in 1..Len(chains) : chains[k].group = rel.cur}
           rejects == awaited /\ ~accepted
           resolves == awaited /\ \A k \in mine : chains[k].state = "done"
           r == [rel EXCEPT !.chains = chains, !.issued = issued]
           folderName == rel.groups[chain.group].folderName
       IN  /\ store' = UploadFileStore(store, call.file, call.folderPath, ok)
           /\ relistOwed' = (relistOwed \/ ok)
           /\ IF rejects
              THEN RelativePageEffects(RelativeAdvance(
                       [r EXCEPT !.report = Append(rel.report,
                                     [folderName |-> folderName, outcome |-> "error",
                                      count |-> 0])]))
              ELSE IF resolves
              THEN RelativePageEffects(RelativeAdvance(
                       [r EXCEPT !.hasUploadedItems = TRUE,
                                 !.report = Append(rel.report,
                                     [folderName |-> folderName, outcome |-> "success",
                                      count |-> Cardinality(mine)])]))
              ELSE RelativePageEffects(r)
    /\ UNCHANGED <<cfLast, toast, deleteVars, listVars, uploadVars, files, folders, selectedFolder,
                   fetches, batch, batchReport, opsLeft>>

\* File lists of a picked directory: one file three levels down; a file in
\* the top folder and one in a subfolder; two top folders; a file over the
\* size limit alone
RelativeDrops ==
    { <<RelFile(NameY, 1, Join(<<NameA, NameB, NameC, NameY>>))>>,
      <<RelFile(NameX, 1, Join(<<NameA, NameX>>)), RelFile(NameY, 1, Join(<<NameA, NameB, NameY>>))>>,
      <<RelFile(NameX, 1, Join(<<NameA, NameX>>)), RelFile(NameY, 1, Join(<<NameB, NameY>>))>>,
      <<RelFile(NameX, FILE_SIZE_LIMIT + 1, Join(<<NameA, NameX>>))>> }

NextPageRelative ==
    \/ FetchFilesStart
    \/ \E i \in 1..Len(fetches) : FetchFilesEnd(i, TRUE)
    \/ SetSelectedFolder(PathA)
    \/ \E acceptedFiles \in RelativeDrops : OnDropRelative(acceptedFiles)
    \/ \E ok \in BOOLEAN : RelativeMarkerAnswer(ok)
    \/ \E c \in 1..Len(rel.chains), ok \in BOOLEAN : RelativePutAnswer(c, ok)

\* The page with a directory picked through the file input
SpecPageRelative == InitPage /\ [][NextPageRelative]_vars

\* The directory levels of a relative path, the top folder first:
\* a, a/b, a/b/c for a/b/c/y
DirectoryLevels(path) ==
    LET dirs == SliceDropLast(Split(path))
    IN  [k \in 1..Len(dirs) |-> Join(SubSeq(dirs, 1, k))]

\* C22: when the call that puts a file of a picked directory is made, a call
\* that puts the marker has been made before it for every directory level
\* from the top folder down to the file's own directory.
C22_IntermediateMarkersFirst ==
    \A i \in 1..Len(rel.issued) :
        ~rel.issued[i].marker =>
            \A k \in 1..Len(DirectoryLevels(rel.issued[i].path)) :
                \E j \in 1..(i - 1) :
                    /\ rel.issued[j].marker
                    /\ rel.issued[j].key =
                           UploadFileKey(FileOf(KEEP, 0),
                               RelativeMainFolderPath(rel.folder,
                                   DirectoryLevels(rel.issued[i].path)[k]))


\* ---------------------------------------------------------------------
\* The inferred tree against the delimiter listing of a folder
\* ---------------------------------------------------------------------

\* The sub-folder paths which the delimiter listing that listFiles makes
\* for a folder reports as common prefixes
ScopedSubFolders(st, folder) ==
    LET CommonPrefixes == ListObjectsV2(st, ListFilesPrefix(folder), TRUE).CommonPrefixes
    IN  {SlashStr \o Join(FilterBoolean(Split(CommonPrefixes[i]))) : i \in 1..Len(CommonPrefixes)}

\* The paths of the children of the node of a folder in the tree
ChildPaths(folderList, folder) ==
    LET children == GetSubFolders(folderList, folder)
    IN  {children[i].path : i \in 1..Len(children)}

\* C23: once the bucket (which fits in one listing response) is listed, the
\* children of every node of the tree built from the listing are the
\* sub-folders the delimiter listing of that folder reports as common
\* prefixes.
C23_TreeMatchesScopedListing ==
    (Listed /\ Cardinality(store) <= MaxKeys) =>
        \A F \in SeqToSet(FolderPaths(folders)) :
            ChildPaths(folders, F) = ScopedSubFolders(store, F)


(***************************************************************************)
(* buildFolderStructure on the listing of buckets whose keys may hold      *)
(* empty segments, a leading slash or a trailing slash.                    *)
(***************************************************************************)
BuildUniverse ==
    { NameX,
      <<"a", "/", "/", "x">>,
      <<"/", "a", "/", "y">>,
      Join(<<NameA, NameB, NameC, NameY>>),
      <<"b", "/">>,
      Join(<<NameAB, NameC, KEEP>>),
      Join(<<NameB, NameA, NameX>>) }

InitBuild ==
    /\ store \in SUBSET BuildUniverse
    /\ DeleteIdle
    /\ ListIdle
    /\ UploadIdle
    /\ PageMounted
    /\ opsLeft = 0

\* The page lists such a bucket and builds its tree
SpecBuild == InitBuild /\ [][NextTree]_vars

\* The number of segments of a folder path
Depth(path) == Len(FilterBoolean(Split(path)))

\* The second pass takes the branch "Parent folder ... not found" at the
\* n-th sorted path: the path gets a new folder and the map has no folder
\* for its parent path
ParentNotFoundAt(sortedPaths, n) ==
    LET folderMap == FolderMapAfter(sortedPaths, n - 1)
        path == sortedPaths[n]
    IN  /\ path # SlashStr
        /\ path \notin DOMAIN folderMap
        /\ ParentPathOf(path) \notin DOMAIN folderMap

\* C24: for the records of any listing, buildFolderStructure processes the
\* candidate paths in non-decreasing depth, finds the parent of every
\* non-root path in the map when it processes the path, and every folder of
\* the map is a node of the tree it returns.
C24_ParentsProcessedFirst ==
    Listed =>
        LET sortedPaths == SortedPaths(AllPaths(files))
        IN  /\ \A n \in 1..(Len(sortedPaths) - 1) :
                   Depth(sortedPaths[n]) <= Depth(sortedPaths[n + 1])
            /\ \A n \in 1..Len(sortedPaths) : ~ParentNotFoundAt(sortedPaths, n)
            /\ DOMAIN FolderMapAfter(sortedPaths, Len(sortedPaths))
                   = SeqToSet(FolderPaths(folders))
            /\ folders = BuildFolderStructure(files)

\* C24 witness: the tree was built from a listing with a key three folders
\* deep, a key with an empty segment and a key with a leading slash, whose
\* candidate paths were inserted with a deeper path before a shallower one
C24_Witness ==
    /\ Listed
    /\ {Join(<<NameA, NameB, NameC, NameY>>), <<"a", "/", "/", "x">>, <<"/", "a", "/", "y">>,
        Join(<<NameB, NameA, NameX>>)} \subseteq store
    /\ <<"/", "a", "/", "b", "/", "c">> \in SeqToSet(FolderPaths(folders))
    /\ \E m, n \in 1..Len(AllPaths(files)) :
           m < n /\ Depth(AllPaths(files)[m]) > Depth(AllPaths(files)[n])


(***************************************************************************)
(* Two deleteFolder runs against one bucket: each lists once and then      *)
(* awaits its delete calls one after the other, so the calls of the two    *)
(* runs interleave in any order.                                           *)
(***************************************************************************)
NextDeleteTwo ==
    \/ \E r \in RunIds, p \in {PathA, PathAB} : DeleteFolderCall(r, p)
    \/ \E r \in RunIds, ok \in BOOLEAN : DeleteFolderStep(r, ok)

SpecDeleteTwo == InitDelete /\ [][NextDeleteTwo]_vars

\* The two runs are runs on one folder other than the root
SameFolderRuns ==
    /\ \A r \in RunIds : dfPc[r] # "idle"
    /\ dfFolderPath[1] = dfFolderPath[2]
    /\ dfFolderPath[1] # PathRoot

\* The keys under the folder fitted in the listing response of either run
ListedInOnePage ==
    \A r \in RunIds : Cardinality(KeysUnder(dfListed[r], dfFolderPath[r])) <= MaxKeys

C26_LatestListingWins ==
    (PageQuiet /\ ~relistOwed) =>
        /\ files = ListFilesRoot(store)
        /\ folders = BuildFolderStructure(ListFilesRoot(store))


\* ---------------------------------------------------------------------
\* The selected folder and the tree
\* ---------------------------------------------------------------------

\* C27: once every refresh the handlers triggered has completed, no upload
\* is under way and the tree the page holds is the tree of the bucket, the
\* selected folder is the root or the path of a node of that tree.
C27_SelectedFolderExists ==
    (PageQuiet /\ folders = BuildFolderStructure(ListFilesRoot(store))) =>
        \/ selectedFolder = SlashStr
        \/ selectedFolder \in SeqToSet(FolderPaths(folders))


\* ---------------------------------------------------------------------
\* What deleteFolder leaves alone
\* ---------------------------------------------------------------------

\* C28: a deleteFolder run on a folder P other than the root asks the store
\* to delete only keys that start with P's key followed by a slash, and the
\* keys of the bucket outside that prefix are those that were there when
\* the run listed.
C28_DeleteFolderFrame ==
    \A r \in RunIds :
        (dfPc[r] # "idle" /\ dfFolderPath[r] # PathRoot) =>
            /\ \A i \in 1..Len(dfCalls[r]) :
                   StartsWith(dfCalls[r][i].key, FolderKeyPrefix(dfFolderPath[r]))
            /\ store \ KeysUnder(store, dfFolderPath[r])
                   = dfListed[r] \ KeysUnder(dfListed[r], dfFolderPath[r])

\* C28 witness: a run on /a has returned after deleting keys under a/ while
\* the sibling folder key ab/x, the sibling file a.x and the root file x
\* were in the bucket, and they still are
C28_Witness ==
    /\ dfPc[1] = "returned"
    /\ dfFolderPath[1] = PathA
    /\ Len(dfCalls[1]) >= 2
    /\ store = {Join(<<NameAB, NameX>>), NameADotX, NameX}


\* ---------------------------------------------------------------------
\* Every file is reachable through the tree
\* ---------------------------------------------------------------------

\* The folders whose direct-file list shows the key, among the folder paths
\* of the listed buckets and the nodes of the tree
FoldersShowing(fileList, folderList, key) ==
    {F \in BrowsedFolders \cup SeqToSet(FolderPaths(folderList)) :
        \E j \in 1..Len(FilteredFiles(fileList, F)) : FilteredFiles(fileList, F)[j].fileKey = key}

\* The key is shown by one record of the direct-file list of one folder,
\* and that folder is a node of the tree
ShownOnceInTree(fileList, folderList, key) ==
    /\ Cardinality(FoldersShowing(fileList, folderList, key)) = 1
    /\ FoldersShowing(fileList, folderList, key) \subseteq SeqToSet(FolderPaths(folderList))
    /\ \A F \in FoldersShowing(fileList, folderList, key) :
           Cardinality({j \in 1..Len(FilteredFiles(fileList, F)) :
                           FilteredFiles(fileList, F)[j].fileKey = key}) = 1

CreatedKeys == {ufLog[i].key : i \in {j \in 1..Len(ufLog) : ufLog[j].ok}}

\* C30: when uploadFolder has returned, its list has no two entries with the
\* same object key, and the number of items the page reports for the folder
\* is the number of distinct objects the run put in the bucket.
C30_OneEntryPerObject ==
    ufPc = "returned" =>
        /\ \A i, j \in 1..Len(ufResults) :
               ufResults[i].fileKey = ufResults[j].fileKey => i = j
        /\ OnDropFolderToast(ufResults).count = Cardinality(CreatedKeys)

=============================================================================
